---- MODULE Spec2Model ----
(***************************************************************************)
(* A model of the oku display pipeline: the PBM file-emulation display     *)
(* driver (epd_emulated.c), the Waveshare 2.9" hardware display driver     *)
(* (epd_ws29bw.c over spi_wp.c) and the bit-packed bitmap (bitmap.c).      *)
(*                                                                         *)
(* Each driver is a state machine of its own with its own specification:   *)
(*   SpecFile  the file-emulation backend, one action per epd_* call       *)
(*   SpecHw    the hardware backend, one action per epd_* call             *)
(*   SpecBusy  wait_while_busy(), one action per loop step                 *)
(*   SpecBmp   the bitmap operations                                       *)
(* The variables of the machines a specification does not run stay at      *)
(* their initial values.                                                   *)
(***************************************************************************)
EXTENDS Integers, Sequences, FiniteSets, TLC

(***************************************************************************)
(* State                                                                   *)
(***************************************************************************)
\* The file-emulation backend
VARIABLES
    stream,       \* epd->stream: NULL or the open FILE
    pbm,          \* what ./display.pbm holds: header characters, raster bytes
    f_op,         \* the last epd_* call
    f_ret,        \* what it returned
    f_pre,        \* epd->stream when it was called
    f_in,         \* epd_display's arguments: the bitmap (null: it is NULL), len
    f_written,    \* the number of bytes fwrite() wrote in the last call
    f_nullwrite,  \* the last call called fwrite() with a NULL stream
    f_crashed,    \* the process died
    f_displays    \* epd_display calls since the file was opened

filevars == << stream, pbm, f_op, f_ret, f_pre, f_in, f_written,
               f_nullwrite, f_crashed, f_displays >>

\* The hardware backend
VARIABLES
    spi_fid,     \* spi_wp.c: the SPI file descriptor, -1 while not open
    pin_level,   \* the level last written to each output pin
    pin_mode,    \* the mode each pin was set to
    h_op,        \* the last epd_* call
    h_ret,       \* what it returned
    h_log,       \* the transport calls it made, in order
    h_pre,       \* spi_fid when it was called
    h_in,        \* epd_display's arguments: the bitmap and len
    h_env        \* what the transport did: the write() that was short, the
                 \* number of times the busy pin read high

hwvars == << spi_fid, pin_level, pin_mode, h_op, h_ret, h_log, h_pre, h_in,
             h_env >>

\* wait_while_busy()
VARIABLES
    bw           \* the loop of wait_while_busy(): t, the samples of the busy
                 \* pin and the delays so far, whether it returned, and what

\* bitmap.c
VARIABLES
    bmp,         \* the BITMAP drawn into: buffer, length, pitch, row_px
    rectangle,   \* the BITMAP copied from
    b_op,        \* the last bitmap_* call, or the caller's buffer assignment
    b_ret,       \* what it returned
    b_args,      \* its arguments
    b_pre,       \* the BITMAP drawn into (for bitmap_create: the one
                 \* handed to it), as it was when the call was made
    b_ub,        \* the call accessed memory outside a buffer
    b_acc,       \* the indices of bmp's buffer that the last
                 \* bitmap_modify_px or bitmap_clear read or wrote
    b_prev       \* the bitmap_modify_px call before the last one, when both
                 \* addressed the same pixel

bmpvars == << bmp, rectangle, b_op, b_ret, b_args, b_pre, b_ub, b_acc,
             b_prev >>

\* cache.c
VARIABLES
    c_cache,     \* the CACHE * the caller holds: NullPointer or the cache
    c_fontsize,  \* cache->fontsize
    c_table,     \* cache->table: head and tail of each of the lists
    c_nodes,     \* the struct NODEs allocated; a node pointer is an index
    c_op,        \* the last cache_* call (or nsearch call)
    c_ret,       \* what it returned
    c_args,      \* its arguments
    c_ub,        \* the call stored through a NULL pointer
    c_crashed,   \* the process died, or hangs in a loop
    c_inserted,  \* the << codepoint, glyph >> pairs cache_insert was
                 \* called with
    c_bucket     \* the index into cache->table the last call computed with
                 \* hash(), NoBucket when it computed none

cachevars == << c_cache, c_fontsize, c_table, c_nodes, c_op, c_ret, c_args,
               c_ub, c_crashed, c_inserted, c_bucket >>

\* utf8.c
VARIABLES
    u_stream,    \* the bytes of the text file not yet read
    u_out,       \* the caller's codepoint variable, *out
    u_op,        \* the last call
    u_ret,       \* what it returned
    u_pre        \* the stream and *out when it was called, and whether a
                 \* read error struck during it

utf8vars == << u_stream, u_out, u_op, u_ret, u_pre >>

\* oku.c: main()
VARIABLES
    m_pc,        \* the statement of main() that runs next, or how it ended
    m_err,       \* main's err
    m_db,        \* glyph.c's db: NullPointer or the cache
    m_calls,     \* the calls made so far, in order
    m_exit,      \* the exit status of the process
    m_died,      \* die() was called
    m_fontsize,  \* atoi(argv[2])
    m_text,      \* the bytes of the file at argv[1]
    m_cp         \* main's cp

mainvars == << m_pc, m_err, m_db, m_calls, m_exit, m_died, m_fontsize,
               m_text, m_cp >>

(***************************************************************************)
(* oku_types.h: enum OKU_ERRNO                                             *)
(***************************************************************************)
OK == 0
ERR_INPUT == 1
ERR_COMMS == 2
ERR_IO == 4
ERR_UNINITIALISED == 5
ERR_PARTIAL_WRITE == 6
ERR_BUSY == 7
WARN_ROOT == -1
ERR_NOT_FOUND == 8
ERR_INVALID_UTF8 == 8
ERR_RENDER == 9
WARN_REPLACEMENT_CHAR == -2
WARN_EOF == -4

(***************************************************************************)
(* Bounds of the model                                                     *)
(***************************************************************************)
\* Longest bitmap, in bytes, handed to the file backend besides the
\* device-sized ones.
MaxLen == 2
\* Number of epd_display calls the file backend accepts per opened file.
MaxDisplays == 1

Min(a, b) == IF a < b THEN a ELSE b
Max(a, b) == IF a > b THEN a ELSE b

\* A function's return value, or no return at all (the process died).
Returned(v) == << v >>
NoReturn == << >>

\* The bitmaps handed to a driver: the bytes of the p-th one, of len bytes.
PatternIds == {0, 1}
Pattern(p, len) == [i \in 1..len |-> (165 * p + 3 * i) % 256]

(***************************************************************************)
(* The file-emulation backend (epd_emulated.c)                             *)
(***************************************************************************)

NULL == "NULL"
OPEN == "FILE"

\* #define WIDTH, HEIGHT, STR_LEN
WIDTH == 128
HEIGHT == 296
STR_LEN == 6

\* calculate_pitch() without the byte for the pixels past a multiple of 8
calculate_pitch_floor(width) == width \div 8

\* calculate_pitch(): bytes per row of the device
calculate_pitch(width) ==
    IF width % 8 = 0 THEN width \div 8 ELSE width \div 8 + 1

\* The length of a bitmap that fills the device.
DeviceLen == calculate_pitch(WIDTH) * HEIGHT

\* Decimal digits of a natural number, as printf's %d prints it.
RECURSIVE Digits(_)
Digits(n) == IF n < 10 THEN 1 ELSE 1 + Digits(n \div 10)

\* The characters of "P4 %d %d\n" for WIDTH and HEIGHT.
HeaderChars == 2 + 1 + Digits(WIDTH) + 1 + Digits(HEIGHT) + 1

EmptyFile == [hdr |-> 0, data |-> << >>]

\* file_check(): is the file pointer NULL
file_check(s) == IF s = NULL THEN ERR_UNINITIALISED ELSE OK

\* file_open(): fopen(filename, "w") stored in epd->stream
file_open(fopen_ok) ==
    LET s == IF fopen_ok THEN OPEN ELSE NULL
    IN  [stream |-> s, err |-> IF file_check(s) # 0 THEN ERR_IO ELSE OK]

\* file_close() without "epd->stream = NULL"
file_close_keeps_handle(s, fclose_ret) ==
    IF file_check(s) > 0
    THEN [stream |-> s, err |-> file_check(s)]
    ELSE [stream |-> s, err |-> fclose_ret]

\* file_close(): fclose_ret is what fclose() returns (0, or EOF)
file_close(s, fclose_ret) ==
    IF file_check(s) > 0
    THEN [stream |-> s, err |-> file_check(s)]
    ELSE [stream |-> NULL, err |-> fclose_ret]

\* The value returned for a write that was short (the continuation lines of
\* the two return statements).
short_write_result(short) == IF short THEN ERR_PARTIAL_WRITE ELSE OK

\* file_write_headers(): printed is what fprintf() returned
file_write_headers(printed) == short_write_result(printed # 5 + STR_LEN)

\* file_write_bitmap() comparing with <= for <
file_write_bitmap_le(written, len) == short_write_result(written <= len)

\* file_write_bitmap(): written is what fwrite() returned
file_write_bitmap(written, len) == short_write_result(written < len)

\* epd_on(): the body of "if (err > 0)" after file_open()
on_open_failed(s, f, err) == [stream |-> s, pbm |-> f, ret |-> err]

\* epd_on(): the body of "if (err > 0) { }" after file_write_headers()
on_headers_failed(s, f, err, fclose_ret) ==
    [stream |-> file_close(s, fclose_ret).stream, pbm |-> f, ret |-> err]

\* epd_on()
file_epd_on(s, f, fopen_ok, printed, fclose_ret) ==
    LET o == file_open(fopen_ok)
        \* fopen(.., "w") truncates the file, fprintf() then writes printed
        \* characters
        g == [hdr |-> Max(printed, 0), data |-> << >>]
        err == file_write_headers(printed)
    IN  IF o.err > 0 THEN on_open_failed(o.stream, f, o.err)
        ELSE IF err > 0 THEN on_headers_failed(o.stream, g, err, fclose_ret)
        ELSE [stream |-> o.stream, pbm |-> g, ret |-> OK]

\* epd_off()
file_epd_off(s, f, fclose_ret) ==
    LET c == file_close(s, fclose_ret)
    IN  [stream |-> c.stream, pbm |-> f, ret |-> c.err]

\* epd_reset(): return epd_on(epd) || epd_off(epd);
file_epd_reset(s, f, fopen_ok, printed, fclose_ret) ==
    LET on == file_epd_on(s, f, fopen_ok, printed, fclose_ret)
        off == file_epd_off(on.stream, on.pbm, fclose_ret)
    IN  IF on.ret # 0 THEN [on EXCEPT !.ret = 1]
        ELSE [off EXCEPT !.ret = IF off.ret # 0 THEN 1 ELSE 0]

\* epd_display(): the body of "if (len == 0 || bitmap == NULL)"
display_invalid == ERR_INPUT

\* What the environment may answer
HdrCounts == {-1, 0, HeaderChars - 1, HeaderChars}
FcloseRets == {0, -1}
WriteCounts(len) == {len - 1, len} \cap (0..len)
DisplayLens == (0..MaxLen) \cup {DeviceLen}
DisplayInputs ==
    [null : {TRUE}, bitmap : {<< >>}, len : {0, DeviceLen}]
    \cup { [null |-> FALSE, bitmap |-> Pattern(p, n), len |-> n] :
              p \in PatternIds, n \in DisplayLens }

\* No epd_display arguments: the last call was another one.
NoInput == [null |-> TRUE, bitmap |-> << >>, len |-> 0]

InitFileVars ==
    /\ stream = NULL          \* epd_create(): oku_alloc() is calloc()
    /\ pbm = EmptyFile
    /\ f_op = "create"
    /\ f_ret = NoReturn
    /\ f_pre = NULL
    /\ f_in = NoInput
    /\ f_written = 0
    /\ f_nullwrite = FALSE
    /\ f_crashed = FALSE
    /\ f_displays = 0

FileEpdOn ==
    /\ UNCHANGED << hwvars, bw, bmpvars, cachevars,
                    utf8vars, mainvars >>
    /\ ~f_crashed
    /\ \E fopen_ok \in BOOLEAN, printed \in HdrCounts, fc \in FcloseRets :
          LET r == file_epd_on(stream, pbm, fopen_ok, printed, fc)
          IN  /\ stream' = r.stream
              /\ pbm' = r.pbm
              /\ f_ret' = Returned(r.ret)
    /\ f_op' = "on"
    /\ f_pre' = stream
    /\ f_displays' = 0
    /\ f_in' = NoInput
    /\ f_written' = 0
    /\ f_nullwrite' = FALSE
    /\ UNCHANGED f_crashed

FileEpdOff ==
    /\ UNCHANGED << hwvars, bw, bmpvars, cachevars,
                    utf8vars, mainvars >>
    /\ ~f_crashed
    /\ \E fc \in FcloseRets :
          LET r == file_epd_off(stream, pbm, fc)
          IN  /\ stream' = r.stream
              /\ pbm' = r.pbm
              /\ f_ret' = Returned(r.ret)
    /\ f_op' = "off"
    /\ f_pre' = stream
    /\ f_in' = NoInput
    /\ f_written' = 0
    /\ f_nullwrite' = FALSE
    /\ UNCHANGED << f_crashed, f_displays >>

FileEpdReset ==
    /\ UNCHANGED << hwvars, bw, bmpvars, cachevars,
                    utf8vars, mainvars >>
    /\ ~f_crashed
    /\ \E fopen_ok \in BOOLEAN, printed \in HdrCounts, fc \in FcloseRets :
          LET r == file_epd_reset(stream, pbm, fopen_ok, printed, fc)
          IN  /\ stream' = r.stream
              /\ pbm' = r.pbm
              /\ f_ret' = Returned(r.ret)
    /\ f_op' = "reset"
    /\ f_pre' = stream
    /\ f_displays' = 0
    /\ f_in' = NoInput
    /\ f_written' = 0
    /\ f_nullwrite' = FALSE
    /\ UNCHANGED f_crashed

\* epd_display() with arguments that pass its first test, on a stream that
\* is open: fwrite() writes `written` of the len bytes.
FileDisplayWrite(in, written) ==
    /\ pbm' = [pbm EXCEPT !.data = @ \o SubSeq(in.bitmap, 1, written)]
    /\ f_written' = written
    /\ f_ret' = Returned(file_write_bitmap(written, in.len))
    /\ f_nullwrite' = FALSE
    /\ UNCHANGED f_crashed

\* The same call on a NULL stream: fwrite(.., NULL) is undefined. The
\* process dies, or fwrite() returns some count without writing.
FileDisplayNull(in, died, written) ==
    /\ f_nullwrite' = TRUE
    /\ f_crashed' = died
    /\ f_written' = 0
    /\ f_ret' = IF died THEN NoReturn
                ELSE Returned(file_write_bitmap(written, in.len))
    /\ UNCHANGED pbm

FileEpdDisplay ==
    /\ UNCHANGED << hwvars, bw, bmpvars, cachevars,
                    utf8vars, mainvars >>
    /\ ~f_crashed
    /\ f_displays < MaxDisplays
    /\ \E in \in DisplayInputs :
          /\ f_in' = in
          /\ IF in.len = 0 \/ in.null
             THEN /\ f_ret' = Returned(display_invalid)
                  /\ f_written' = 0
                  /\ f_nullwrite' = FALSE
                  /\ UNCHANGED << pbm, f_crashed >>
             ELSE IF stream = NULL
             THEN \E died \in BOOLEAN, written \in WriteCounts(in.len) :
                     FileDisplayNull(in, died, written)
             ELSE \E written \in WriteCounts(in.len) :
                     FileDisplayWrite(in, written)
    /\ f_op' = "display"
    /\ f_pre' = stream
    /\ f_displays' = f_displays + 1
    /\ UNCHANGED stream

(***************************************************************************)
(* The hardware backend (epd_ws29bw.c over spi_wp.c)                       *)
(***************************************************************************)

\* epd->width and epd->height: a device scaled down from WIDTH x HEIGHT
epd_width == 12
epd_height == 2
\* The SPI write() calls of one epd_* call that may come back short: the
\* first MaxFailAt.
MaxFailAt == 24

\* #define RESET_DELAY, BUSY_DELAY
RESET_DELAY == 200
BUSY_DELAY == 300
\* wait_while_busy(): if (++t > 100)
BUSY_POLLS == 100

\* enum PIN
PIN_RST == 17
PIN_DC == 25
PIN_CS == 8
PIN_BUSY == 24
Pins == {PIN_RST, PIN_DC, PIN_CS, PIN_BUSY}

\* enum GPIO_LEVEL
GPIO_LEVEL_ERROR == -1
GPIO_LEVEL_LOW == 0
GPIO_LEVEL_HIGH == 1

\* enum COMMAND
DRIVER_OUTPUT_CONTROL == 1
BOOSTER_SOFT_START_CONTROL == 12
DEEP_SLEEP_MODE == 16
DATA_ENTRY_MODE_SETTING == 17
MASTER_ACTIVATION == 32
DISPLAY_UPDATE_CONTROL_2 == 34
WRITE_RAM == 36
WRITE_VCOM_REGISTER == 44
WRITE_LUT_REGISTER == 50
SET_DUMMY_LINE_PERIOD == 58
SET_GATE_TIME == 59
BORDER_WAVEFORM_CONTROL == 60
SET_RAM_X_ADDRESS_START_END_POSITION == 68
SET_RAM_Y_ADDRESS_START_END_POSITION == 69
SET_RAM_X_ADDRESS_COUNTER == 78
SET_RAM_Y_ADDRESS_COUNTER == 79
TERMINATE_FRAME_READ_WRITE == 255

\* byte lut_full_update[]
lut_full_update ==
    << 2, 2, 1, 17, 18, 18, 34, 34, 102, 105, 105, 89, 88, 153, 153, 136,
       0, 0, 0, 0, 248, 180, 19, 81, 53, 81, 81, 25, 1, 0 >>

\* x & 0xFF and x >> 8 of an unsigned short
LowByte(x) == x % 256
HighByte(x) == (x \div 256) % 256

\* The driver's view of the transport while one epd_* call runs: the
\* descriptor, the pins, the calls made so far, the number of write() calls
\* and what the environment answers (fail: the write() call that is short,
\* 0 for none; busy: the number of samples of the busy pin that read high).
Transport(fid, level, mode, fail, busy) ==
    [fid |-> fid, level |-> level, mode |-> mode, log |-> << >>, nw |-> 0,
     fail |-> fail, busy |-> busy]

Done(h, err) == [h |-> h, err |-> err]

\* err = f(..); if (err > 0) goto out; ...
Bind(r, F(_)) == IF r.err > 0 THEN r ELSE F(r.h)

\* spi_gpio_pinmode()
spi_gpio_pinmode(h, pin, mode) ==
    [h EXCEPT !.mode[pin] = mode,
              !.log = Append(@, [ev |-> "mode", pin |-> pin, mode |-> mode])]

\* spi_gpio_write()
spi_gpio_write(h, pin, pin_lvl) ==
    IF pin_lvl = GPIO_LEVEL_ERROR THEN Done(h, ERR_COMMS)
    ELSE Done([h EXCEPT !.level[pin] = pin_lvl,
                        !.log = Append(@, [ev |-> "gpio", pin |-> pin,
                                           level |-> pin_lvl])], OK)

\* spi_delay()
spi_delay(h, time) == [h EXCEPT !.log = Append(@, [ev |-> "delay", ms |-> time])]

\* spi_open(): setup is what wiringPiSPISetup() returned
spi_open(h, setup) ==
    Done([h EXCEPT !.fid = setup, !.log = Append(@, [ev |-> "open"])],
         IF setup < 0 THEN ERR_COMMS ELSE OK)

\* spi_write(): the write() call is logged with the levels of the chip
\* select and data/command pins at the time
spi_write(h, data) ==
    IF h.fid < 0 THEN Done(h, ERR_UNINITIALISED)
    ELSE LET short == (h.nw + 1 = h.fail)
         IN  Done([h EXCEPT !.nw = @ + 1,
                            !.log = Append(@, [ev |-> "spi", data |-> data,
                                               cs |-> h.level[PIN_CS],
                                               dc |-> h.level[PIN_DC],
                                               short |-> short])],
                  IF short THEN ERR_PARTIAL_WRITE ELSE OK)

\* spi_gpio_read(PIN_BUSY): the level of the i-th sample of one wait
BusyLevel(busy, i) == IF i <= busy THEN GPIO_LEVEL_HIGH ELSE GPIO_LEVEL_LOW

\* write_command(): the result of the chip select write is not stored
write_command(h, command) ==
    Bind(spi_gpio_write(h, PIN_DC, GPIO_LEVEL_LOW), LAMBDA h1 :
      LET h2 == spi_gpio_write(h1, PIN_CS, GPIO_LEVEL_LOW).h
      IN  Bind(spi_write(h2, << command % 256 >>), LAMBDA h3 :
            spi_gpio_write(h3, PIN_CS, GPIO_LEVEL_HIGH)))

\* write_data() that leaves the data/command pin as it is
write_data_dc_kept(h, data) ==
    Bind(spi_gpio_write(h, PIN_CS, GPIO_LEVEL_LOW), LAMBDA h2 :
      Bind(spi_write(h2, data), LAMBDA h3 :
        spi_gpio_write(h3, PIN_CS, GPIO_LEVEL_HIGH)))

\* write_data()
write_data(h, data) ==
    Bind(spi_gpio_write(h, PIN_DC, GPIO_LEVEL_HIGH), LAMBDA h1 :
      Bind(spi_gpio_write(h1, PIN_CS, GPIO_LEVEL_LOW), LAMBDA h2 :
        Bind(spi_write(h2, data), LAMBDA h3 :
          spi_gpio_write(h3, PIN_CS, GPIO_LEVEL_HIGH))))

Cmd(c) == [cmd |-> TRUE, bytes |-> << c >>]
Data(d) == [cmd |-> FALSE, bytes |-> d]

\* err = write_command(..); if (err > 0) goto out;
\* err = write_data(..);    if (err > 0) goto out; ... out: return err;
RECURSIVE write_sequence(_, _)
write_sequence(h, steps) ==
    LET s == Head(steps)
        r == IF s.cmd THEN write_command(h, s.bytes[1])
             ELSE write_data(h, s.bytes)
    IN  IF Len(steps) = 1 THEN r
        ELSE Bind(r, LAMBDA h1 : write_sequence(h1, Tail(steps)))

\* push_shift_register()
push_shift_register(h) ==
    write_sequence(h,
      << Cmd(DRIVER_OUTPUT_CONTROL),
         Data(<< LowByte(epd_height - 1), HighByte(epd_height - 1), 0 >>),
         Cmd(BOOSTER_SOFT_START_CONTROL), Data(<< 215, 214, 157 >>),
         Cmd(WRITE_VCOM_REGISTER), Data(<< 168 >>),
         Cmd(SET_DUMMY_LINE_PERIOD), Data(<< 26 >>),
         Cmd(SET_GATE_TIME), Data(<< 8 >>),
         Cmd(BORDER_WAVEFORM_CONTROL), Data(<< 3 >>),
         Cmd(DATA_ENTRY_MODE_SETTING), Data(<< 3 >>) >>)

\* push_lut()
push_lut(h, lut) ==
    write_sequence(h, << Cmd(WRITE_LUT_REGISTER), Data(SubSeq(lut, 1, 30)) >>)

\* wait_while_busy(): the state of the loop
busy_start == [t |-> 0, samples |-> 0, sleeps |-> 0, done |-> FALSE,
               ret |-> OK]

\* wait_while_busy() without ++t
busy_step_no_count(w, level) ==
    IF level # GPIO_LEVEL_HIGH
    THEN [w EXCEPT !.samples = @ + 1, !.done = TRUE, !.ret = OK]
    ELSE IF w.t > BUSY_POLLS
    THEN [w EXCEPT !.samples = @ + 1, !.sleeps = @ + 1,
                   !.done = TRUE, !.ret = ERR_BUSY]
    ELSE [w EXCEPT !.samples = @ + 1, !.sleeps = @ + 1]

\* wait_while_busy(): one test of the loop condition, reading `level` from
\* the busy pin, and the loop body when the pin is high
busy_step(w, level) ==
    IF level # GPIO_LEVEL_HIGH
    THEN [w EXCEPT !.samples = @ + 1, !.done = TRUE, !.ret = OK]
    ELSE IF w.t + 1 > BUSY_POLLS
    THEN [w EXCEPT !.samples = @ + 1, !.sleeps = @ + 1, !.t = @ + 1,
                   !.done = TRUE, !.ret = ERR_BUSY]
    ELSE [w EXCEPT !.samples = @ + 1, !.sleeps = @ + 1, !.t = @ + 1]

\* wait_while_busy() run to its return
RECURSIVE busy_loop(_, _, _)
busy_loop(h, w, busy_delay) ==
    IF w.done THEN Done(h, w.ret)
    ELSE LET level == BusyLevel(h.busy, w.samples + 1)
             h1 == [h EXCEPT !.log = Append(@, [ev |-> "read",
                                                level |-> level])]
             h2 == IF level = GPIO_LEVEL_HIGH THEN spi_delay(h1, busy_delay)
                   ELSE h1
         IN  busy_loop(h2, busy_step(w, level), busy_delay)

wait_while_busy(h, busy_delay) == busy_loop(h, busy_start, busy_delay)

\* ram_set_window()
ram_set_window(h, xmin, xmax, ymin, ymax) ==
    write_sequence(h,
      << Cmd(SET_RAM_X_ADDRESS_START_END_POSITION),
         Data(<< LowByte(xmin \div 8), LowByte(xmax \div 8) >>),
         Cmd(SET_RAM_Y_ADDRESS_START_END_POSITION),
         Data(<< LowByte(ymin), HighByte(ymin),
                 LowByte(ymax), HighByte(ymax) >>) >>)

\* ram_set_cursor() that leaves the Y address counter at row 0
ram_set_cursor_row0(h, x, y) ==
    write_sequence(h,
      << Cmd(SET_RAM_X_ADDRESS_COUNTER), Data(<< LowByte(x \div 8) >>),
         Cmd(SET_RAM_Y_ADDRESS_COUNTER), Data(<< 0, 0 >>) >>)

\* ram_set_cursor()
ram_set_cursor(h, x, y) ==
    write_sequence(h,
      << Cmd(SET_RAM_X_ADDRESS_COUNTER), Data(<< LowByte(x \div 8) >>),
         Cmd(SET_RAM_Y_ADDRESS_COUNTER),
         Data(<< LowByte(y), HighByte(y) >>) >>)

\* ram_write(): the inner loop, from byte x of the row; i is the index of
\* the next byte of the bitmap
RECURSIVE ram_write_row(_, _, _, _, _)
ram_write_row(h, bitmap, i, x, width) ==
    IF x < calculate_pitch(width)
    THEN Bind(write_data(h, << 255 - bitmap[i] >>), LAMBDA h1 :
           ram_write_row(h1, bitmap, i + 1, x + 1, width))
    ELSE Done(h, OK)

\* ram_write(): the outer loop, from row y
RECURSIVE ram_write_rows(_, _, _, _, _)
ram_write_rows(h, bitmap, y, width, height) ==
    IF y < height
    THEN Bind(ram_set_cursor(h, 0, y), LAMBDA h1 :
           Bind(write_command(h1, WRITE_RAM), LAMBDA h2 :
             Bind(ram_write_row(h2, bitmap, y * calculate_pitch(width) + 1,
                                0, width), LAMBDA h3 :
               ram_write_rows(h3, bitmap, y + 1, width, height))))
    ELSE Done(h, OK)

ram_write(h, bitmap, width, height) ==
    ram_write_rows(h, bitmap, 0, width, height)

\* ram_load()
ram_load(h, busy_delay) ==
    Bind(write_sequence(h,
           << Cmd(DISPLAY_UPDATE_CONTROL_2), Data(<< 196 >>),
              Cmd(MASTER_ACTIVATION), Cmd(TERMINATE_FRAME_READ_WRITE) >>),
         LAMBDA h1 : wait_while_busy(h1, busy_delay))

\* spi_init_gpio(): errno after wiringPiSetupGpio()
spi_init_gpio(errno) ==
    CASE errno = "0" -> OK
      [] errno = "EACCES" -> WARN_ROOT
      [] OTHER -> ERR_IO

\* init_gpio()
init_gpio(h, errno) ==
    LET err == spi_init_gpio(errno)
        h0 == [h EXCEPT !.log = Append(@, [ev |-> "setup"])]
    IN  IF err < 0 THEN Done(h0, err)
        ELSE Done(spi_gpio_pinmode(spi_gpio_pinmode(spi_gpio_pinmode(
                    spi_gpio_pinmode(h0, PIN_RST, "OUTPUT"),
                    PIN_DC, "OUTPUT"), PIN_CS, "OUTPUT"), PIN_BUSY, "INPUT"),
                  err)

\* init_spi()
init_spi(h, setup) == spi_open(h, setup)

\* epd_reset()
hw_epd_reset(h, reset_delay) ==
    Bind(spi_gpio_write(h, PIN_RST, GPIO_LEVEL_HIGH), LAMBDA h1 :
      Bind(spi_gpio_write(spi_delay(h1, reset_delay), PIN_RST,
                          GPIO_LEVEL_LOW), LAMBDA h2 :
        Bind(spi_gpio_write(spi_delay(h2, reset_delay), PIN_RST,
                            GPIO_LEVEL_HIGH), LAMBDA h3 :
          Done(spi_delay(h3, reset_delay), OK))))

\* epd_on(): the result of ram_set_window() is not stored
hw_epd_on(h, errno, setup) ==
    Bind(init_gpio(h, errno), LAMBDA h1 :
      Bind(init_spi(h1, setup), LAMBDA h2 :
        Bind(hw_epd_reset(h2, RESET_DELAY), LAMBDA h3 :
          Bind(push_shift_register(h3), LAMBDA h4 :
            LET r == push_lut(h4, lut_full_update)
            IN  Bind(r, LAMBDA h5 :
                  Done(ram_set_window(h5, 0, epd_width, 0, epd_height).h,
                       r.err))))))

\* epd_display()
hw_epd_display(h, bitmap, len) ==
    LET pitch == calculate_pitch(epd_width)
        w == ram_write(h, bitmap, epd_width, epd_height)
        l == ram_load(w.h, BUSY_DELAY)
    IN  IF len # pitch * epd_height THEN Done(h, ERR_INPUT)
        ELSE IF w.err # 0 THEN Done(w.h, ERR_COMMS)
        ELSE IF l.err # 0 THEN Done(l.h, ERR_COMMS)
        ELSE Done(l.h, OK)

\* epd_off()
hw_epd_off(h) ==
    Bind(wait_while_busy(h, BUSY_DELAY), LAMBDA h1 :
      write_sequence(h1, << Cmd(DEEP_SLEEP_MODE), Data(<< 1 >>) >>))

\* What the environment may answer
FailAts == 0..MaxFailAt
BusyCounts == {0, 1, BUSY_POLLS + 1}
\* Either a write() comes back short, or the busy pin reads high for a while
HwEnvs == { [fail |-> k, busy |-> 0] : k \in FailAts }
          \cup { [fail |-> 0, busy |-> b] : b \in BusyCounts }
HwDisplayLens ==
    LET n == calculate_pitch(epd_width) * epd_height
    IN  {0, n - 1, n, n + 1}
HwDisplayInputs ==
    { [bitmap |-> Pattern(p, n), len |-> n] :
         p \in PatternIds, n \in HwDisplayLens }
\* epd_on(): errno after wiringPiSetupGpio(), what wiringPiSPISetup()
\* returns, the write() that is short. The later answers matter only when
\* the earlier calls succeeded.
HwOnEnvs ==
    { [errno |-> "EIO", setup |-> -1, fail |-> 0] }
    \cup { [errno |-> e, setup |-> -1, fail |-> 0] : e \in {"0", "EACCES"} }
    \cup { [errno |-> e, setup |-> 3, fail |-> k] :
              e \in {"0", "EACCES"}, k \in FailAts }
NoHwInput == [bitmap |-> << >>, len |-> 0]
NoHwEnv == [fail |-> 0, busy |-> 0]

InitHwVars ==
    /\ spi_fid = -1              \* static int spi_fid = -1;
    /\ pin_level = [p \in Pins |-> GPIO_LEVEL_LOW]
    /\ pin_mode = [p \in Pins |-> "UNSET"]
    /\ h_op = "create"
    /\ h_ret = NoReturn
    /\ h_log = << >>
    /\ h_pre = -1
    /\ h_in = NoHwInput
    /\ h_env = NoHwEnv

\* The state after an epd_* call that left the transport as r.h and
\* returned r.err.
HwReturn(op, r, in, env) ==
    /\ UNCHANGED << filevars, bw, bmpvars, cachevars,
                    utf8vars, mainvars >>
    /\ spi_fid' = r.h.fid
    /\ pin_level' = r.h.level
    /\ pin_mode' = r.h.mode
    /\ h_op' = op
    /\ h_ret' = Returned(r.err)
    /\ h_log' = r.h.log
    /\ h_pre' = spi_fid
    /\ h_in' = in
    /\ h_env' = env

HwEpdOn ==
    \E env \in HwOnEnvs :
       HwReturn("on",
                hw_epd_on(Transport(spi_fid, pin_level, pin_mode, env.fail,
                                    0),
                          env.errno, env.setup),
                NoHwInput, [fail |-> env.fail, busy |-> 0])

HwEpdDisplay ==
    \E in \in HwDisplayInputs :
    \E env \in IF in.len = calculate_pitch(epd_width) * epd_height
               THEN HwEnvs ELSE {NoHwEnv} :
       HwReturn("display",
                hw_epd_display(
                    Transport(spi_fid, pin_level, pin_mode, env.fail,
                              env.busy),
                    in.bitmap, in.len),
                in, env)

HwEpdReset ==
    HwReturn("reset",
             hw_epd_reset(Transport(spi_fid, pin_level, pin_mode, 0, 0),
                          RESET_DELAY),
             NoHwInput, NoHwEnv)

HwEpdOff ==
    \E env \in HwEnvs :
       HwReturn("off",
                hw_epd_off(Transport(spi_fid, pin_level, pin_mode, env.fail,
                                     env.busy)),
                NoHwInput, env)

(***************************************************************************)
(* wait_while_busy() step by step, the busy pin read anew at every test    *)
(***************************************************************************)

InitBusyVars == bw = busy_start

\* One test of the loop condition, and the body when the pin reads high.
BusyPoll ==
    /\ UNCHANGED << filevars, hwvars, bmpvars, cachevars,
                    utf8vars, mainvars >>
    /\ ~bw.done
    /\ \E level \in {GPIO_LEVEL_ERROR, GPIO_LEVEL_LOW, GPIO_LEVEL_HIGH} :
          bw' = busy_step(bw, level)

\* The next call of wait_while_busy().
BusyCall ==
    /\ UNCHANGED << filevars, hwvars, bmpvars, cachevars,
                    utf8vars, mainvars >>
    /\ bw.done
    /\ bw' = busy_start

(***************************************************************************)
(* bitmap.c                                                                *)
(***************************************************************************)
\* Widest and tallest bitmap created, in pixels
MaxBmpWidth == 17
MaxBmpHeight == 4

Pow2(n) == IF n = 0 THEN 1 ELSE IF n = 1 THEN 2 ELSE IF n = 2 THEN 4
           ELSE IF n = 3 THEN 8 ELSE IF n = 4 THEN 16 ELSE IF n = 5 THEN 32
           ELSE IF n = 6 THEN 64 ELSE IF n = 7 THEN 128 ELSE 256

\* a & b and a | b on non-negative integers
RECURSIVE BitAnd(_, _)
BitAnd(a, b) ==
    IF a = 0 \/ b = 0 THEN 0
    ELSE (a % 2) * (b % 2) + 2 * BitAnd(a \div 2, b \div 2)

RECURSIVE BitOr(_, _)
BitOr(a, b) ==
    IF a = 0 THEN b
    ELSE IF b = 0 THEN a
    ELSE Max(a % 2, b % 2) + 2 * BitOr(a \div 2, b \div 2)

\* The value an expression of type int leaves in a uint8_t
Uint8(v) == v % 256
\* The value a size_t leaves in a uint16_t
Uint16(v) == v % 65536
\* ~m, as far as the & with a uint8_t sees it
Not8(m) == 255 - m

\* A buffer pointer that is NULL has no byte to point at.
NULL_BUFFER == << >>

\* struct BITMAP
BITMAP(buffer, length, pitch, row_px) ==
    [buffer |-> buffer, length |-> length, pitch |-> pitch,
     row_px |-> row_px]

\* check_bitmap(): 1 when a numerical field is 0
check_bitmap(b) ==
    IF b.length = 0 \/ b.pitch = 0 \/ b.row_px = 0 THEN 1 ELSE 0

\* xy_to_index(): the index of the byte that holds pixel (x, y)
xy_to_index_first_row(pitch, x, y) == x \div 8

\* xy_to_index()
xy_to_index(pitch, x, y) == (y * pitch) + (x \div 8)

\* bitmap_create() without the byte for the pixels past a multiple of 8
bitmap_create_floor(b, width, height) ==
    IF width = 0 \/ height = 0
    THEN [ret |-> 1, bitmap |-> b]
    ELSE [ret |-> 0,
          bitmap |-> BITMAP(NULL_BUFFER, (width \div 8) * height,
                            width \div 8, width)]

\* bitmap_create(): the return value and the BITMAP it leaves
bitmap_create(b, width, height) ==
    IF width = 0 \/ height = 0
    THEN [ret |-> 1, bitmap |-> b]
    ELSE LET pitch == IF width % 8 # 0 THEN (width \div 8) + 1
                      ELSE width \div 8
         IN  [ret |-> 0,
              bitmap |-> BITMAP(NULL_BUFFER, pitch * height, pitch, width)]

\* *p for the byte at index i of a buffer; outside the buffer the value is
\* whatever lies there, and it is only ever written back to where it came
\* from
load(buf, i) == IF i < Len(buf) THEN buf[i + 1] ELSE 0

\* *p = v for the byte at index i; a write outside the buffer lands in
\* memory that is not the buffer
store(buf, i, v) == IF i < Len(buf) THEN [buf EXCEPT ![i + 1] = v] ELSE buf

\* The while loop of bitmap_copy(): out and in are the buffers, o the index
\* out points at, count the bytes of in consumed.
RECURSIVE copy_loop(_, _, _, _, _, _, _, _)
copy_loop(out, in, o, count, bitnumber, in_length, in_pitch, out_pitch) ==
    IF ~(count < in_length)
    THEN [buffer |-> out, ub |-> FALSE]
    ELSE LET inb == load(in, count)
             out1 == store(out, o,
                        Uint8(BitOr(inb \div Pow2(bitnumber),
                                    BitAnd(load(out, o),
                                       Not8(255 \div Pow2(bitnumber))))))
             out2 == store(out1, o + 1,
                        Uint8(BitOr(inb * Pow2(8 - bitnumber),
                                    BitAnd(load(out1, o + 1),
                                           255 \div Pow2(bitnumber)))))
             o2 == IF (count + 1) % in_pitch = 0
                   THEN o + 1 + (out_pitch - in_pitch)
                   ELSE o + 1
             rest == copy_loop(out2, in, o2, count + 1, bitnumber,
                               in_length, in_pitch, out_pitch)
         IN  [buffer |-> rest.buffer,
              ub |-> \/ rest.ub
                     \/ ~(count < Len(in))
                     \/ ~(o + 1 < Len(out))]

\* A fit check that lets the source end on the last column and row
copy_rejects_gt(xmin, in_width, out_width, ymin, in_height, out_height) ==
    xmin + in_width > out_width \/ ymin + in_height > out_height

\* The fit check of bitmap_copy()
copy_rejects(xmin, in_width, out_width, ymin, in_height, out_height) ==
    xmin + in_width >= out_width \/ ymin + in_height >= out_height

\* bitmap_copy(): the return value, the buffer of bmp afterwards, and
\* whether a byte outside a buffer was accessed
bitmap_copy(b, r, xmin, ymin) ==
    IF check_bitmap(b) # 0 \/ check_bitmap(r) # 0
    THEN [ret |-> 1, buffer |-> b.buffer, ub |-> FALSE]
    ELSE LET in_width == Uint16(r.row_px)
             in_height == Uint16(r.length \div r.pitch)
             out_width == Uint16(b.row_px)
             out_height == Uint16(b.length \div b.pitch)
         IN  IF copy_rejects(xmin, in_width, out_width,
                             ymin, in_height, out_height)
             THEN [ret |-> 2, buffer |-> b.buffer, ub |-> FALSE]
             ELSE LET w == copy_loop(b.buffer, r.buffer,
                                     xy_to_index(b.pitch, xmin, ymin), 0,
                                     xmin % 8, r.length, r.pitch, b.pitch)
                  IN  [ret |-> 0, buffer |-> w.buffer, ub |-> w.ub]

\* bitmap.h: enum SET_PIXEL_MODE
SET_PIXEL_BLACK == 0
SET_PIXEL_WHITE == 1
SET_PIXEL_TOGGLE == 2

\* a ^ b on non-negative integers
RECURSIVE BitXor(_, _)
BitXor(a, b) ==
    IF a = 0 THEN b
    ELSE IF b = 0 THEN a
    ELSE ((a + b) % 2) + 2 * BitXor(a \div 2, b \div 2)

\* !m: 1 when m is 0, else 0
LogicalNot(m) == IF m = 0 THEN 1 ELSE 0

\* px_toggle(): *byte ^= bit_mask
px_toggle(byte, bit_mask) == BitXor(byte, bit_mask)

\* px_unset(): *byte &= !bit_mask
px_unset(byte, bit_mask) == BitAnd(byte, LogicalNot(bit_mask))

\* px_set(): *byte |= bit_mask
px_set(byte, bit_mask) == BitOr(byte, bit_mask)

\* x_to_bitmask(): the most significant bit is the pixel nearest the origin
x_to_bitmask(x) == Uint8(Pow2(7 - (x % 8)))

\* check_coordinates() that lets x == width and y == height through
check_coordinates_gt(width, height, x, y) ==
    IF x > width \/ y > height THEN 1 ELSE 0

\* check_coordinates(): 1 when (x, y) is outside width x height
check_coordinates(width, height, x, y) ==
    IF x >= width \/ y >= height THEN 1 ELSE 0

\* The mode bitmap_modify_px() acts on, after its two tests of
\* pixel_colour and mode
reversed_mode(mode, pixel_colour) ==
    IF pixel_colour = 0 \/ mode = SET_PIXEL_BLACK THEN SET_PIXEL_WHITE
    ELSE IF pixel_colour = 0 \/ mode = SET_PIXEL_WHITE THEN SET_PIXEL_BLACK
    ELSE mode

\* bitmap_modify_px(): the return value, the buffer afterwards, the
\* indices of the buffer accessed and whether one was outside it
bitmap_modify_px(b, x, y, mode, pixel_colour) ==
    IF check_bitmap(b) # 0
    THEN [ret |-> 1, buffer |-> b.buffer, acc |-> {}, ub |-> FALSE]
    ELSE IF check_coordinates(b.row_px, b.length \div b.pitch, x, y) # 0
    THEN [ret |-> 2, buffer |-> b.buffer, acc |-> {}, ub |-> FALSE]
    ELSE LET i == xy_to_index(b.pitch, x, y)
             bitmask == x_to_bitmask(x)
             m == reversed_mode(mode, pixel_colour)
             byte == load(b.buffer, i)
             new == IF m = SET_PIXEL_TOGGLE THEN px_toggle(byte, bitmask)
                    ELSE IF m = SET_PIXEL_BLACK THEN px_unset(byte, bitmask)
                    ELSE px_set(byte, bitmask)
         IN  [ret |-> 0, buffer |-> store(b.buffer, i, new), acc |-> {i},
              ub |-> ~(i < Len(b.buffer))]

\* bitmap_clear(): the return value, the buffer afterwards, the indices
\* of the buffer accessed and whether one was outside it
bitmap_clear(b, black_colour) ==
    IF black_colour # 0 /\ black_colour # 1
    THEN [ret |-> 1, buffer |-> b.buffer, acc |-> {}, ub |-> FALSE]
    ELSE IF check_bitmap(b) # 0
    THEN [ret |-> 2, buffer |-> b.buffer, acc |-> {}, ub |-> FALSE]
    ELSE [ret |-> 0,
          buffer |-> [i \in 1..Len(b.buffer) |->
                        IF i <= b.length
                        THEN (IF black_colour # 0 THEN 0 ELSE 255)
                        ELSE b.buffer[i]],
          acc |-> 0 .. (b.length - 1),
          ub |-> b.length > Len(b.buffer)]

\* What the callers hand to bitmap.c
BmpWidths == {0, 9, MaxBmpWidth}
BmpHeights == {0, 2, MaxBmpHeight}
BmpOriginsX == 0 .. 8
BmpOriginsY == {0, 1}
BmpNames == {"bmp", "rectangle"}
\* What a buffer holds when it is assigned: all clear, all set, or mixed
BmpFills == {"clear", "set", "mixed"}
BufferFill(f, len) ==
    IF f = "clear" THEN [i \in 1..len |-> 0]
    ELSE IF f = "set" THEN [i \in 1..len |-> 255]
    ELSE Pattern(1, len)

\* The buffer holds what it held when it was assigned: the callers draw
\* into a buffer they have just filled.
FreshBuffer(b) ==
    \/ b.buffer = NULL_BUFFER
    \/ \E f \in BmpFills : b.buffer = BufferFill(f, b.length)

NoArgs == [x |-> 0, y |-> 0]
NoPrev == [op |-> "none"]

InitBmpVars ==
    /\ bmp = BITMAP(NULL_BUFFER, 0, 0, 0)
    /\ rectangle = BITMAP(NULL_BUFFER, 0, 0, 0)
    /\ b_op = "none"
    /\ b_ret = NoReturn
    /\ b_args = NoArgs
    /\ b_pre = BITMAP(NULL_BUFFER, 0, 0, 0)
    /\ b_ub = FALSE
    /\ b_acc = {}
    /\ b_prev = NoPrev

\* bitmap_create(&bmp, ..) or bitmap_create(rectangle, ..)
BmpCreate ==
    /\ UNCHANGED << filevars, hwvars, bw, cachevars,
                    utf8vars, mainvars >>
    /\ \E name \in BmpNames, width \in BmpWidths, height \in BmpHeights :
          LET r == bitmap_create(IF name = "bmp" THEN bmp ELSE rectangle,
                                 width, height)
          IN  /\ bmp' = IF name = "bmp" THEN r.bitmap ELSE bmp
              /\ rectangle' = IF name = "bmp" THEN rectangle ELSE r.bitmap
              /\ b_op' = "create"
              /\ b_ret' = Returned(r.ret)
              /\ b_args' = [name |-> name, width |-> width,
                            height |-> height]
              /\ b_pre' = IF name = "bmp" THEN bmp ELSE rectangle
              /\ b_ub' = FALSE
              /\ b_acc' = {}
              /\ b_prev' = NoPrev

\* The caller gives a created BITMAP its buffer of length bytes.
BmpAssign ==
    /\ UNCHANGED << filevars, hwvars, bw, cachevars,
                    utf8vars, mainvars >>
    /\ \E name \in BmpNames, f \in BmpFills :
          LET b == IF name = "bmp" THEN bmp ELSE rectangle
              a == [b EXCEPT !.buffer = BufferFill(f, b.length)]
          IN  /\ b.length > 0
              /\ bmp' = IF name = "bmp" THEN a ELSE bmp
              /\ rectangle' = IF name = "bmp" THEN rectangle ELSE a
              /\ b_op' = "assign"
              /\ b_ret' = NoReturn
              /\ b_args' = NoArgs
              /\ b_pre' = bmp
              /\ b_ub' = FALSE
              /\ b_acc' = {}
              /\ b_prev' = NoPrev

\* bitmap_copy(&bmp, rectangle, xmin, ymin)
BmpCopy ==
    /\ UNCHANGED << filevars, hwvars, bw, cachevars,
                    utf8vars, mainvars >>
    /\ FreshBuffer(bmp)
    /\ \E xmin \in BmpOriginsX, ymin \in BmpOriginsY :
          LET r == bitmap_copy(bmp, rectangle, xmin, ymin)
          IN  /\ bmp' = [bmp EXCEPT !.buffer = r.buffer]
              /\ b_ret' \in IF r.ub THEN {Returned(r.ret), NoReturn}
                            ELSE {Returned(r.ret)}
              /\ b_ub' = r.ub
              /\ b_acc' = {}
              /\ b_prev' = NoPrev
              /\ b_op' = "copy"
              /\ b_args' = [x |-> xmin, y |-> ymin]
              /\ b_pre' = bmp
              /\ UNCHANGED rectangle

\* Pixels and arguments handed to bitmap_modify_px and bitmap_clear
PxXs == {0, 7, 8, 9, MaxBmpWidth}
PxYs == {0, 2, MaxBmpHeight}
PxModes == {SET_PIXEL_BLACK, SET_PIXEL_WHITE, SET_PIXEL_TOGGLE}
PxColours == {0, 1}
ClearColours == {0, 1, 2}

\* The BITMAPs bitmap_create and the assignment of a buffer leave
CreatedBitmaps ==
    {bitmap_create(BITMAP(NULL_BUFFER, 0, 0, 0), w, h).bitmap :
        w \in BmpWidths \ {0}, h \in BmpHeights \ {0}}

PxBitmaps ==
    {BITMAP(NULL_BUFFER, 0, 0, 0)}
        \cup CreatedBitmaps
        \cup {[b EXCEPT !.buffer = BufferFill(f, b.length)] :
                 b \in CreatedBitmaps, f \in BmpFills}

InitPxVars ==
    /\ bmp \in PxBitmaps
    /\ rectangle = BITMAP(NULL_BUFFER, 0, 0, 0)
    /\ b_op = "none"
    /\ b_ret = NoReturn
    /\ b_args = NoArgs
    /\ b_pre = bmp
    /\ b_ub = FALSE
    /\ b_acc = {}
    /\ b_prev = NoPrev

\* bitmap_modify_px(&bmp, x, y, mode, pixel_colour): the first call on a
\* buffer as it was assigned or cleared, or the second, on the pixel of
\* the first
BmpModifyPx ==
    /\ UNCHANGED << filevars, hwvars, bw, cachevars,
                    utf8vars, mainvars >>
    /\ \E x \in PxXs, y \in PxYs, mode \in PxModes, colour \in PxColours :
          LET again == /\ b_op = "modify_px"
                       /\ b_args.x = x
                       /\ b_args.y = y
              r == bitmap_modify_px(bmp, x, y, mode, colour)
          IN  /\ \/ (b_op # "modify_px" /\ FreshBuffer(bmp))
                 \/ (again /\ b_prev = NoPrev)
              /\ bmp' = [bmp EXCEPT !.buffer = r.buffer]
              /\ b_ret' \in IF r.ub THEN {Returned(r.ret), NoReturn}
                            ELSE {Returned(r.ret)}
              /\ b_ub' = r.ub
              /\ b_acc' = r.acc
              /\ b_op' = "modify_px"
              /\ b_args' = [x |-> x, y |-> y, mode |-> mode,
                            colour |-> colour]
              /\ b_pre' = bmp
              /\ b_prev' = IF again
                           THEN [op |-> b_op, args |-> b_args,
                                 pre |-> b_pre, ret |-> b_ret]
                           ELSE NoPrev
              /\ UNCHANGED rectangle

\* bitmap_clear(&bmp, black_colour)
BmpClear ==
    /\ UNCHANGED << filevars, hwvars, bw, cachevars,
                    utf8vars, mainvars >>
    /\ \E black_colour \in ClearColours :
          LET r == bitmap_clear(bmp, black_colour)
          IN  /\ bmp' = [bmp EXCEPT !.buffer = r.buffer]
              /\ b_ret' \in IF r.ub THEN {Returned(r.ret), NoReturn}
                            ELSE {Returned(r.ret)}
              /\ b_ub' = r.ub
              /\ b_acc' = r.acc
              /\ b_op' = "clear"
              /\ b_args' = [colour |-> black_colour]
              /\ b_pre' = bmp
              /\ b_prev' = NoPrev
              /\ UNCHANGED rectangle

(***************************************************************************)
(* cache.c                                                                 *)
(***************************************************************************)
\* Nodes allocated in one run
MaxNodes == 2
\* Longest chain handed to nsearch()
MaxChain == 2

\* #define TABLE_SIZE
TABLE_SIZE == 255

\* NULL, for the pointers to a cache, a node and a glyph
NullPointer == 0

\* a && b
LogicalAnd(a, b) == IF a # 0 /\ b # 0 THEN 1 ELSE 0

\* nullptr(): OK (0) when the pointer is not NULL
nullptr(ptr) == IF ptr = NullPointer THEN ERR_UNINITIALISED ELSE OK

\* cpsame(): OK (0) on a match
cpsame(cp1, cp2) == IF cp1 # cp2 THEN ERR_NOT_FOUND ELSE OK

\* hash(): return unicode && 0xFF
hash(unicode) == Uint8(LogicalAnd(unicode, 255))

\* struct LIST
LIST(head, tail) == [head |-> head, tail |-> tail]

\* ncreate(): the new struct NODE
ncreate(unicode, newglyph) ==
    [unicode |-> unicode, render |-> newglyph, hits |-> 0,
     next |-> NullPointer]

\* nsearch(): walks while the node is not NULL and !cpsame() holds
RECURSIVE nsearch(_, _, _)
nsearch(nodes, head, search) ==
    IF LogicalNot(nullptr(head)) # 0
          /\ LogicalNot(cpsame(nodes[head].unicode, search)) # 0
    THEN nsearch(nodes, nodes[head].next, search)
    ELSE IF nullptr(head) # 0 THEN NullPointer ELSE nodes[head].render

\* lsearch()
lsearch(nodes, in, search) == nsearch(nodes, in.head, search)

\* cache_search()
cache_search(in, table, nodes, search) ==
    IF nullptr(in) # 0 THEN NullPointer
    ELSE lsearch(nodes, table[hash(search)], search)

\* lenqueue(): the list and the nodes afterwards; in->tail->next is a store
\* through NULL when the list has no tail, and then lands in no node
lenqueue(in, nodes, unicode, new) ==
    LET newtail == Len(nodes) + 1
        created == Append(nodes, ncreate(unicode, new))
    IN  [ret |-> OK,
         ub |-> in.tail = NullPointer,
         nodes |-> IF in.tail = NullPointer THEN created
                   ELSE [created EXCEPT ![in.tail].next = newtail],
         list |-> LIST(in.head, newtail)]

\* cache_insert()
cache_insert(table, nodes, unicode, new) ==
    LET r == lenqueue(table[hash(unicode)], nodes, unicode, new)
    IN  [ret |-> r.ret, ub |-> r.ub, nodes |-> r.nodes,
         table |-> [table EXCEPT ![hash(unicode)] = r.list]]

\* cache_create(): every list of the new cache is empty
cache_create(fontname, fontsize) ==
    [cache |-> 1, fontsize |-> fontsize,
     table |-> [i \in 0 .. (TABLE_SIZE - 1) |->
                  LIST(NullPointer, NullPointer)]]

\* ndelete(): clears the node; glyph_delete() frees the glyph, the node
\* itself is not freed
ndelete(nodes, delete) ==
    IF nullptr(delete) # 0 THEN nodes
    ELSE [nodes EXCEPT ![delete] = [unicode |-> 0, render |-> @.render,
                                    hits |-> 0, next |-> NullPointer]]

\* ldelete_head(): the list and the nodes afterwards
ldelete_head(delete, nodes) ==
    IF nullptr(delete.head) # 0 THEN [list |-> delete, nodes |-> nodes]
    ELSE LET new_head == nodes[delete.head].next
         IN  [list |-> LIST(new_head,
                            IF nullptr(new_head) # 0 THEN NullPointer
                            ELSE delete.tail),
              nodes |-> ndelete(nodes, delete.head)]

\* ldestroy(): while (!nullptr(delete)) ldelete_head(delete); the state in
\* which the loop no longer changes anything. Its condition tests the list
\* pointer, which is never NULL.
RECURSIVE ldestroy(_, _)
ldestroy(delete, nodes) ==
    IF nullptr(delete.head) # 0 THEN [list |-> delete, nodes |-> nodes]
    ELSE LET r == ldelete_head(delete, nodes)
         IN  ldestroy(r.list, r.nodes)

\* cache_destroy(): ldestroy() on list i and on the lists after it; a list
\* without a head is left as it is, so the loop goes on at the next list
\* that has one
RECURSIVE cache_destroy_lists(_, _, _)
cache_destroy_lists(table, nodes, i) ==
    LET heads == {j \in i .. (TABLE_SIZE - 1) : nullptr(table[j].head) = 0}
    IN  IF heads = {} THEN [table |-> table, nodes |-> nodes]
        ELSE LET k == CHOOSE j \in heads : \A l \in heads : j <= l
                 r == ldestroy(table[k], nodes)
             IN  cache_destroy_lists([table EXCEPT ![k] = r.list], r.nodes,
                                     k + 1)

\* How a call of cache_destroy() can end.  With db NULL every list it
\* walks lies at a small address and ldelete_head() reads through it; with
\* a cache, ldestroy() loops while (!nullptr(delete)) on a list pointer that
\* never changes, a loop without side effects that the build either keeps
\* or drops.
cache_destroy(db) ==
    IF db = NullPointer THEN {"crashed", "return"} ELSE {"hung", "return"}

\* What the callers hand to cache.c
Codepoints == {0, 65, 66, 321}
Glyphs == {1, 2}
FontSizes == {0, 12}
NoCacheArgs == [cp |-> 0]
NoBucket == -1

InitCacheVars ==
    /\ c_cache = NullPointer
    /\ c_fontsize = 0
    /\ c_table = << >>
    /\ c_nodes = << >>
    /\ c_op = "none"
    /\ c_ret = NoReturn
    /\ c_args = NoCacheArgs
    /\ c_ub = FALSE
    /\ c_crashed = FALSE
    /\ c_inserted = {}
    /\ c_bucket = NoBucket

\* cache = cache_create(fontname, fontsize)
CacheCreate ==
    /\ UNCHANGED << filevars, hwvars, bw, bmpvars,
                    utf8vars, mainvars >>
    /\ ~c_crashed
    /\ c_cache = NullPointer
    /\ \E fontsize \in FontSizes :
          LET r == cache_create("font", fontsize)
          IN  /\ c_cache' = r.cache
              /\ c_fontsize' = r.fontsize
              /\ c_table' = r.table
              /\ c_op' = "create"
              /\ c_ret' = Returned(r.cache)
              /\ c_args' = [fontsize |-> fontsize]
              /\ c_ub' = FALSE
              /\ c_bucket' = NoBucket
              /\ UNCHANGED << c_nodes, c_crashed, c_inserted >>

\* cache_insert(cache, unicode, new)
CacheInsert ==
    /\ UNCHANGED << filevars, hwvars, bw, bmpvars,
                    utf8vars, mainvars >>
    /\ ~c_crashed
    /\ c_cache # NullPointer
    /\ Len(c_nodes) < MaxNodes
    /\ \E unicode \in Codepoints, new \in Glyphs :
          LET r == cache_insert(c_table, c_nodes, unicode, new)
          IN  /\ c_op' = "insert"
              /\ c_args' = [cp |-> unicode, glyph |-> new]
              /\ c_ub' = r.ub
              /\ c_inserted' = c_inserted \cup {<< unicode, new >>}
              /\ c_nodes' = r.nodes
              /\ c_bucket' = hash(unicode)
              /\ \/ /\ c_table' = r.table
                    /\ c_ret' = Returned(r.ret)
                    /\ UNCHANGED c_crashed
                 \/ /\ r.ub
                    /\ c_crashed' = TRUE
                    /\ c_ret' = NoReturn
                    /\ UNCHANGED c_table
              /\ UNCHANGED << c_cache, c_fontsize >>

\* cache_search(cache, search)
CacheSearch ==
    /\ UNCHANGED << filevars, hwvars, bw, bmpvars,
                    utf8vars, mainvars >>
    /\ ~c_crashed
    /\ \E search \in Codepoints :
          /\ c_op' = "search"
          /\ c_args' = [cp |-> search]
          /\ c_ret' = Returned(cache_search(c_cache, c_table, c_nodes,
                                            search))
          /\ c_ub' = FALSE
          /\ c_bucket' = IF nullptr(c_cache) # 0 THEN NoBucket
                         ELSE hash(search)
          /\ UNCHANGED << c_cache, c_fontsize, c_table, c_nodes, c_crashed,
                          c_inserted >>

\* glyph(unicode) with the renderer started: glyph_from_cache(), and when
\* that returns NULL glyph_from_face(), which renders and, when FreeType
\* succeeds, has create_glyph() insert the new glyph `new` into the cache
Glyph ==
    /\ UNCHANGED << filevars, hwvars, bw, bmpvars,
                    utf8vars, mainvars >>
    /\ ~c_crashed
    /\ c_cache # NullPointer
    /\ Len(c_nodes) < MaxNodes
    /\ \E unicode \in Codepoints, new \in Glyphs, render \in {OK, ERR_RENDER} :
          LET found == cache_search(c_cache, c_table, c_nodes, unicode)
              r == cache_insert(c_table, c_nodes, unicode, new)
              known == \E g \in Glyphs : << unicode, g >> \in c_inserted
          IN  /\ c_op' = "glyph"
              /\ c_bucket' = hash(unicode)
              /\ UNCHANGED << c_cache, c_fontsize >>
              /\ IF found # NullPointer
                 THEN /\ c_ret' = Returned(found)
                      /\ c_args' = [cp |-> unicode, known |-> known,
                                    rendered |-> FALSE]
                      /\ c_ub' = FALSE
                      /\ UNCHANGED << c_table, c_nodes, c_crashed,
                                      c_inserted >>
                 ELSE IF render # 0
                 THEN /\ c_ret' = Returned(NullPointer)
                      /\ c_args' = [cp |-> unicode, known |-> known,
                                    rendered |-> FALSE]
                      /\ c_ub' = FALSE
                      /\ UNCHANGED << c_table, c_nodes, c_crashed,
                                      c_inserted >>
                 ELSE /\ c_args' = [cp |-> unicode, known |-> known,
                                    rendered |-> TRUE]
                      /\ c_ub' = r.ub
                      /\ c_inserted' = c_inserted \cup {<< unicode, new >>}
                      /\ c_nodes' = r.nodes
                      /\ \/ /\ c_table' = r.table
                            /\ c_ret' = Returned(new)
                            /\ UNCHANGED c_crashed
                         \/ /\ r.ub
                            /\ c_crashed' = TRUE
                            /\ c_ret' = NoReturn
                            /\ UNCHANGED c_table

\* cache_destroy(cache)
CacheDestroy ==
    /\ UNCHANGED << filevars, hwvars, bw, bmpvars,
                    utf8vars, mainvars >>
    /\ ~c_crashed
    /\ c_op # "destroy"
    /\ \E how \in cache_destroy(c_cache) :
          /\ c_op' = "destroy"
          /\ c_args' = NoCacheArgs
          /\ c_ret' = NoReturn
          /\ c_ub' = (c_cache = NullPointer)
          /\ c_bucket' = NoBucket
          /\ c_crashed' = (how # "return")
          /\ IF how = "return" /\ c_cache # NullPointer
             THEN LET r == cache_destroy_lists(c_table, c_nodes, 0)
                  IN  /\ c_table' = r.table
                      /\ c_nodes' = r.nodes
                      /\ c_fontsize' = 0
             ELSE UNCHANGED << c_table, c_nodes, c_fontsize >>
          /\ UNCHANGED << c_cache, c_inserted >>

\* The chains of n nodes that lenqueue() links onto a list that has a tail:
\* node i points at node i + 1, the last at NULL
RECURSIVE ChainsOf(_)
ChainsOf(n) ==
    IF n = 0 THEN {<< >>}
    ELSE IF n = 1
    THEN {<< ncreate(cp, g) >> : cp \in Codepoints, g \in Glyphs}
    ELSE {Append([c EXCEPT ![n - 1].next = n], ncreate(cp, g)) :
             c \in ChainsOf(n - 1), cp \in Codepoints, g \in Glyphs}

Chains == UNION {ChainsOf(n) : n \in 0 .. MaxChain}

InitNsearchVars ==
    /\ c_nodes \in Chains
    /\ c_cache = NullPointer
    /\ c_fontsize = 0
    /\ c_table = << >>
    /\ c_op = "none"
    /\ c_ret = NoReturn
    /\ c_args = NoCacheArgs
    /\ c_ub = FALSE
    /\ c_crashed = FALSE
    /\ c_inserted = {}
    /\ c_bucket = NoBucket

\* nsearch(head, search) on the first node of a chain, or on NULL
NsearchCall ==
    /\ UNCHANGED << filevars, hwvars, bw, bmpvars,
                    utf8vars, mainvars >>
    /\ \E head \in {NullPointer} \cup (IF c_nodes = << >> THEN {} ELSE {1}),
          search \in Codepoints :
          /\ c_op' = "nsearch"
          /\ c_args' = [head |-> head, cp |-> search]
          /\ c_ret' = Returned(nsearch(c_nodes, head, search))
          /\ UNCHANGED << c_cache, c_fontsize, c_table, c_nodes, c_ub,
                          c_crashed, c_inserted, c_bucket >>

(***************************************************************************)
(* utf8.c                                                                  *)
(***************************************************************************)
\* Longest text file, in bytes
MaxStream == 4

\* #define CHAR_INVALID 0x0000FFFD
CHAR_INVALID == 65533

\* a || b
LogicalOr(a, b) == IF a # 0 \/ b # 0 THEN 1 ELSE 0

\* seq_nbytes(): the look-up table indexed by the five top bits
utf8_len_decode ==
    << 1, 1, 1, 1, 1, 1, 1, 1, 1, 1, 1, 1, 1, 1, 1, 1,
       0, 0, 0, 0, 0, 0, 0, 0, 2, 2, 2, 2, 3, 3, 4, 0 >>

\* seq_nbytes()
seq_nbytes(first) == utf8_len_decode[(first \div 8) + 1]

\* check_eof(): WARN_EOF when feof() holds
check_eof(feof) == IF feof THEN WARN_EOF ELSE OK

\* The bytes fread() delivers and leaves: a read error delivers none
fread(src, n, ioerr) ==
    LET k == IF ioerr THEN 0 ELSE Min(n, Len(src))
    IN  [got |-> SubSeq(src, 1, k),
         rest |-> SubSeq(src, k + 1, Len(src)),
         feof |-> ~ioerr /\ k < n]

\* file_read(): the bytes land at dest[0], dest[1], ..
file_read(src, dest, n, ioerr) ==
    LET r == fread(src, n, ioerr)
    IN  [ret |-> IF Len(r.got) < n
                 THEN LogicalOr(check_eof(r.feof), ERR_IO)
                 ELSE OK,
         dest |-> [i \in 1 .. 4 |->
                     IF i <= Len(r.got) THEN r.got[i] ELSE dest[i]],
         rest |-> r.rest]

\* ftoutf8(): the return value, the buffer, *n and the stream afterwards
ftoutf8(src, dest, length, ioerr) ==
    LET r1 == file_read(src, dest, 1, ioerr)
        n == seq_nbytes(r1.dest[1])
    IN  IF r1.ret # 0
        THEN [ret |-> r1.ret, dest |-> r1.dest, n |-> length,
              rest |-> r1.rest]
        ELSE IF n > 1 /\ n <= 4
        THEN LET r2 == file_read(r1.rest, r1.dest, n - 1, FALSE)
             IN  [ret |-> r2.ret, dest |-> r2.dest, n |-> n,
                  rest |-> r2.rest]
        ELSE IF n # 1
        THEN [ret |-> ERR_INVALID_UTF8, dest |-> r1.dest, n |-> n,
              rest |-> r1.rest]
        ELSE [ret |-> OK, dest |-> r1.dest, n |-> n, rest |-> r1.rest]

\* utf8tocp(): the return value and *out afterwards
utf8tocp(utf8, len, out) ==
    IF len = 1
    THEN [ret |-> OK, out |-> BitOr(out, BitAnd(utf8[1], 127))]
    ELSE IF len = 2
    THEN [ret |-> OK,
          out |-> BitOr(BitOr(out, BitAnd(utf8[1], 31) * 64),
                        BitAnd(utf8[2], 63))]
    ELSE IF len = 3
    THEN [ret |-> OK,
          out |-> BitOr(BitOr(BitOr(out, BitAnd(utf8[1], 15) * 4096),
                              BitAnd(utf8[2], 63) * 64),
                        BitAnd(utf8[3], 63))]
    ELSE IF len = 4
    THEN [ret |-> OK,
          out |-> BitOr(BitOr(BitOr(BitOr(out,
                                          BitAnd(utf8[1], 7) * 262144),
                                    BitAnd(utf8[2], 63) * 4096),
                              BitAnd(utf8[3], 63) * 64),
                        BitAnd(utf8[4], 63))]
    ELSE [ret |-> WARN_REPLACEMENT_CHAR, out |-> CHAR_INVALID]

\* utf8_ftocp(): the return value, *out and the stream afterwards
utf8_ftocp(src, out, ioerr) ==
    LET r == ftoutf8(src, << 0, 0, 0, 0 >>, 0, ioerr)
    IN  IF r.ret > 0
        THEN [ret |-> r.ret, out |-> out, rest |-> r.rest]
        ELSE LET d == utf8tocp(r.dest, r.n, out)
             IN  [ret |-> d.ret, out |-> d.out, rest |-> r.rest]

\* The bytes the text files are made of: ASCII, continuation bytes, the
\* lead bytes of 2-, 3- and 4-byte sequences and a byte that is neither
Utf8Bytes == {66, 72, 128, 169, 195, 226, 240, 255}

\* The text files of n bytes
RECURSIVE StreamsOf(_)
StreamsOf(n) ==
    IF n = 0 THEN {<< >>}
    ELSE {Append(t, b) : t \in StreamsOf(n - 1), b \in Utf8Bytes}

Streams == UNION {StreamsOf(n) : n \in 0 .. MaxStream}

\* FILE *utf8 = fopen(textpath, "r"); codepoint cp = 0;
InitUtf8Vars ==
    /\ u_stream \in Streams
    /\ u_out = 0
    /\ u_op = "none"
    /\ u_ret = NoReturn
    /\ u_pre = [stream |-> << >>, out |-> 0, ioerr |-> FALSE]

\* The machine while another specification runs
IdleUtf8Vars ==
    /\ u_stream = << >>
    /\ u_out = 0
    /\ u_op = "none"
    /\ u_ret = NoReturn
    /\ u_pre = [stream |-> << >>, out |-> 0, ioerr |-> FALSE]

\* err = utf8_ftocp(utf8, &cp)
Utf8Ftocp ==
    /\ UNCHANGED << filevars, hwvars, bw, bmpvars, cachevars, mainvars >>
    /\ \E ioerr \in BOOLEAN :
          LET r == utf8_ftocp(u_stream, u_out, ioerr)
          IN  /\ u_stream' = r.rest
              /\ u_out' = r.out
              /\ u_op' = "ftocp"
              /\ u_ret' = Returned(r.ret)
              /\ u_pre' = [stream |-> u_stream, out |-> u_out,
                           ioerr |-> ioerr]

(***************************************************************************)
(* oku.c and glyph.c: main() from its arguments to the exit of the         *)
(* process.  Memory allocation succeeds.                                   *)
(***************************************************************************)
\* glyph_stop_renderer(): ft_free_face(); ft_free_library();
\* cache_destroy(db); the calls so far and how it ended
glyph_stop_renderer(calls, how) ==
    [calls |-> calls \o << "glyph_stop_renderer", "cache_destroy" >>,
     end |-> how]

\* exit(status): the status the parent sees
ExitStatus(status) == status % 256

\* A run that is over
Ended(pc, calls, status) == [pc |-> pc, calls |-> calls, exit |-> status]

\* die(): log_err(); glyph_stop_renderer(); epd_off(epd); exit(err);
die(calls, err, how) ==
    LET g == glyph_stop_renderer(calls, how)
    IN  IF g.end = "return"
        THEN Ended("exited", g.calls \o << "epd_off", "exit" >>,
                   Returned(ExitStatus(err)))
        ELSE Ended(g.end, g.calls, NoReturn)

\* What FreeType answers to the four steps of glyph_start_renderer()
FtAnswers ==
    {[library |-> l, face |-> f, size |-> z, charmap |-> c] :
        l \in {OK, ERR_RENDER}, f \in {OK, ERR_IO}, z \in {OK},
        c \in {OK, ERR_RENDER}}

\* ft_set_fontsize(): FONT_MAX is not reached by the sizes enumerated
ft_set_fontsize(fontsize, answer) ==
    IF fontsize = 0 THEN ERR_INPUT ELSE answer

\* glyph_start_renderer(): err and db at the label out, before the return
\* statement runs glyph_stop_renderer()
glyph_start_renderer(db, fontsize, ft) ==
    IF ft.library > 0 THEN [err |-> ft.library, db |-> db]
    ELSE IF ft.face > 0 THEN [err |-> ft.face, db |-> db]
    ELSE IF ft_set_fontsize(fontsize, ft.size) > 0
    THEN [err |-> ft_set_fontsize(fontsize, ft.size), db |-> db]
    ELSE IF ft.charmap > 0 THEN [err |-> ft.charmap, db |-> db]
    ELSE [err |-> OK, db |-> cache_create("font", fontsize).cache]

\* The text files main() is run on
MainTexts == UNION {StreamsOf(n) : n \in 0 .. (MaxStream - 3)}

\* What the device answers to epd_on() and to epd_display()
MainOnErrs == {OK, ERR_COMMS}
MainDisplayErrs == {OK, ERR_INPUT, ERR_COMMS}

InitMainVars ==
    /\ m_pc = "args"
    /\ m_err = OK               \* enum OKU_ERRNO err = OK;
    /\ m_db = NullPointer       \* CACHE *db = NULL;
    /\ m_calls = << >>
    /\ m_exit = NoReturn
    /\ m_died = FALSE
    /\ m_fontsize \in FontSizes
    /\ m_text \in MainTexts
    /\ m_cp = 0

\* The machine while another specification runs
IdleMainVars ==
    /\ m_pc = "args"
    /\ m_err = OK
    /\ m_db = NullPointer
    /\ m_calls = << >>
    /\ m_exit = NoReturn
    /\ m_died = FALSE
    /\ m_fontsize = 0
    /\ m_text = << >>
    /\ m_cp = 0

\* main() calls die(err, ..) with the calls made so far
MainDie(calls, err) ==
    \E how \in cache_destroy(m_db) :
        LET d == die(calls, err, how)
        IN  /\ m_pc' = d.pc
            /\ m_calls' = d.calls
            /\ m_exit' = d.exit
            /\ m_died' = TRUE

\* main() goes on to the statement at pc
MainGoto(pc, calls) ==
    /\ m_pc' = pc
    /\ m_calls' = calls
    /\ UNCHANGED << m_exit, m_died >>

\* if ( argc < 4 ) { printf(..); return ERR_INPUT; }
MainArgs ==
    /\ UNCHANGED << filevars, hwvars, bw, bmpvars, cachevars, utf8vars >>
    /\ m_pc = "args"
    /\ UNCHANGED << m_db, m_fontsize, m_text, m_cp, m_died >>
    /\ \E argc \in {3, 4} :
          IF argc < 4
          THEN /\ m_pc' = "exited"
               /\ m_exit' = Returned(ExitStatus(ERR_INPUT))
               /\ UNCHANGED << m_err, m_calls >>
          ELSE /\ m_pc' = "epd_on"
               /\ UNCHANGED << m_err, m_calls, m_exit >>

\* epd = epd_create(); err = epd_on(epd); if (err > 0) die(..);
MainEpdOn ==
    /\ UNCHANGED << filevars, hwvars, bw, bmpvars, cachevars, utf8vars >>
    /\ m_pc = "epd_on"
    /\ UNCHANGED << m_db, m_fontsize, m_text, m_cp >>
    /\ \E err \in MainOnErrs :
          LET calls == m_calls \o << "epd_create", "epd_on" >>
          IN  /\ m_err' = err
              /\ IF err > 0 THEN MainDie(calls, err)
                 ELSE MainGoto("bitmap_create", calls)

\* BITMAP *bmp = bitmap_create(epd->width, epd->height);
MainBitmapCreate ==
    /\ UNCHANGED << filevars, hwvars, bw, bmpvars, cachevars, utf8vars >>
    /\ m_pc = "bitmap_create"
    /\ UNCHANGED << m_err, m_db, m_fontsize, m_text, m_cp >>
    /\ MainGoto("start_renderer", Append(m_calls, "bitmap_create"))

\* err = glyph_start_renderer(fontpath, fontsize); if (err > 0) die(..);
MainStartRenderer ==
    /\ UNCHANGED << filevars, hwvars, bw, bmpvars, cachevars, utf8vars >>
    /\ m_pc = "start_renderer"
    /\ UNCHANGED << m_fontsize, m_text, m_cp >>
    /\ \E ft \in FtAnswers :
          LET r == glyph_start_renderer(m_db, m_fontsize, ft)
              calls == Append(m_calls, "glyph_start_renderer")
          IN  /\ m_db' = r.db
              /\ m_err' = r.err
              /\ IF r.err > 0 \/ r.db = NullPointer
                 THEN \E how \in cache_destroy(r.db) :
                         LET g == glyph_stop_renderer(calls, how)
                         IN  IF g.end # "return"
                             THEN /\ m_pc' = g.end
                                  /\ m_calls' = g.calls
                                  /\ UNCHANGED << m_exit, m_died >>
                             ELSE IF r.err > 0
                             THEN MainDie(g.calls, r.err)
                             ELSE MainGoto("fopen", g.calls)
                 ELSE MainGoto("fopen", Append(calls, "cache_create"))

\* FILE *utf8 = fopen(textpath, "r"); if (utf8 == NULL) die(err, ..);
MainOpenText ==
    /\ UNCHANGED << filevars, hwvars, bw, bmpvars, cachevars, utf8vars >>
    /\ m_pc = "fopen"
    /\ UNCHANGED << m_err, m_db, m_fontsize, m_text, m_cp >>
    /\ \E opened \in BOOLEAN :
          LET calls == Append(m_calls, "fopen")
          IN  IF ~opened THEN MainDie(calls, m_err)
              ELSE MainGoto("ftocp", calls)

\* codepoint cp = 0; err = utf8_ftocp(utf8, &cp); if (err > 0) die(..);
MainDecode ==
    /\ UNCHANGED << filevars, hwvars, bw, bmpvars, cachevars, utf8vars >>
    /\ m_pc = "ftocp"
    /\ UNCHANGED << m_db, m_fontsize >>
    /\ LET r == utf8_ftocp(m_text, 0, FALSE)
           calls == Append(m_calls, "utf8_ftocp")
       IN  /\ m_text' = r.rest
           /\ m_cp' = r.out
           /\ m_err' = r.ret
           /\ IF r.ret > 0 THEN MainDie(calls, r.ret)
              ELSE MainGoto("glyph", calls)

\* GLYPH *char1 = glyph(cp); if (char1 == NULL) die(err, ..);
\* The cache is empty, so glyph_from_cache() finds nothing; when FreeType
\* renders the glyph, create_glyph() inserts it into the cache.
MainGlyph ==
    /\ UNCHANGED << filevars, hwvars, bw, bmpvars, cachevars, utf8vars >>
    /\ m_pc = "glyph"
    /\ UNCHANGED << m_err, m_db, m_fontsize, m_text, m_cp >>
    /\ \E render \in {OK, ERR_RENDER} :
          LET calls == Append(m_calls, "glyph")
              i == cache_insert(cache_create("font", m_fontsize).table,
                                << >>, m_cp, 1)
          IN  IF render # 0 THEN MainDie(calls, m_err)
              ELSE \/ MainGoto("display", Append(calls, "cache_insert"))
                   \/ /\ i.ub
                      /\ m_pc' = "crashed"
                      /\ m_calls' = Append(calls, "cache_insert")
                      /\ UNCHANGED << m_exit, m_died >>

\* err = epd_display(epd, bmp->buffer, bmp->length); if (err > 0) die(..);
MainDisplay ==
    /\ UNCHANGED << filevars, hwvars, bw, bmpvars, cachevars, utf8vars >>
    /\ m_pc = "display"
    /\ UNCHANGED << m_db, m_fontsize, m_text, m_cp >>
    /\ \E err \in MainDisplayErrs :
          LET calls == Append(m_calls, "epd_display")
          IN  /\ m_err' = err
              /\ IF err > 0 THEN MainDie(calls, err)
                 ELSE MainGoto("cleanup", calls)

\* err = cleanup(epd, bmp); return err;
\* cleanup(): return epd_off(epd), bitmap_destroy(bmp), epd_destroy(epd);
MainCleanup ==
    /\ UNCHANGED << filevars, hwvars, bw, bmpvars, cachevars, utf8vars >>
    /\ m_pc = "cleanup"
    /\ UNCHANGED << m_db, m_fontsize, m_text, m_cp, m_died >>
    /\ m_err' = OK
    /\ m_pc' = "exited"
    /\ m_calls' = m_calls \o << "epd_off", "bitmap_destroy", "epd_destroy" >>
    /\ m_exit' = Returned(ExitStatus(OK))

vars == << filevars, hwvars, bw, bmpvars, cachevars, utf8vars,
          mainvars >>

\* The machines a specification does not run
IdleFile == InitFileVars
IdleHw == InitHwVars
IdleBusy == InitBusyVars
IdleBmp == InitBmpVars
IdleCache == InitCacheVars
IdleUtf8 == IdleUtf8Vars
IdleMain == IdleMainVars

InitFile == InitFileVars /\ IdleHw /\ IdleBusy /\ IdleBmp /\ IdleCache /\ IdleUtf8
               /\ IdleMain

NextFile == FileEpdOn \/ FileEpdDisplay \/ FileEpdReset \/ FileEpdOff

SpecFile == InitFile /\ [][NextFile]_vars

InitHw == InitHwVars /\ IdleFile /\ IdleBusy /\ IdleBmp /\ IdleCache /\ IdleUtf8
               /\ IdleMain

NextHw == HwEpdOn \/ HwEpdDisplay \/ HwEpdReset \/ HwEpdOff

SpecHw == InitHw /\ [][NextHw]_vars

InitBusy == InitBusyVars /\ IdleFile /\ IdleHw /\ IdleBmp /\ IdleCache /\ IdleUtf8
               /\ IdleMain

NextBusy == BusyPoll \/ BusyCall

SpecBusy == InitBusy /\ [][NextBusy]_vars

InitBmp == InitBmpVars /\ IdleFile /\ IdleHw /\ IdleBusy /\ IdleCache /\ IdleUtf8
               /\ IdleMain

NextBmp == BmpCreate \/ BmpAssign \/ BmpCopy

SpecBmp == InitBmp /\ [][NextBmp]_vars

InitPx == InitPxVars /\ IdleFile /\ IdleHw /\ IdleBusy /\ IdleCache /\ IdleUtf8
               /\ IdleMain

NextPx == BmpModifyPx \/ BmpClear

SpecPx == InitPx /\ [][NextPx]_vars

InitCache == InitCacheVars /\ IdleFile /\ IdleHw /\ IdleBusy /\ IdleBmp /\ IdleUtf8
               /\ IdleMain

NextCache ==
    CacheCreate \/ CacheInsert \/ CacheSearch \/ CacheDestroy

SpecCache == InitCache /\ [][NextCache]_vars

\* The cache as glyph.c uses it: created by glyph_start_renderer(), then
\* only glyph() requests
InitGlyph == InitCacheVars /\ IdleFile /\ IdleHw /\ IdleBusy /\ IdleBmp
               /\ IdleUtf8 /\ IdleMain

NextGlyph == CacheCreate \/ Glyph

SpecGlyph == InitGlyph /\ [][NextGlyph]_vars

InitNsearch == InitNsearchVars /\ IdleFile /\ IdleHw /\ IdleBusy /\ IdleBmp /\ IdleUtf8
               /\ IdleMain

NextNsearch == NsearchCall

SpecNsearch == InitNsearch /\ [][NextNsearch]_vars

InitUtf8 == InitUtf8Vars /\ IdleFile /\ IdleHw /\ IdleBusy /\ IdleBmp
               /\ IdleCache /\ IdleMain

NextUtf8 == Utf8Ftocp

SpecUtf8 == InitUtf8 /\ [][NextUtf8]_vars

InitMain == InitMainVars /\ IdleFile /\ IdleHw /\ IdleBusy /\ IdleBmp
               /\ IdleCache /\ IdleUtf8

NextMain ==
    \/ MainArgs
    \/ MainEpdOn
    \/ MainBitmapCreate
    \/ MainStartRenderer
    \/ MainOpenText
    \/ MainDecode
    \/ MainGlyph
    \/ MainDisplay
    \/ MainCleanup

SpecMain == InitMain /\ [][NextMain]_vars

(***************************************************************************)
(* Claims about the file-emulation backend                                 *)
(***************************************************************************)

\* C1: epd_display with a usable bitmap while the device is off (the stream
\* is NULL) returns ERR_UNINITIALISED, writes nothing and never calls
\* fwrite() with the NULL stream.
C1_DisplayWhileOffUninitialised ==
    (f_op = "display" /\ f_pre = NULL /\ ~f_in.null /\ f_in.len > 0)
        => /\ f_ret = Returned(ERR_UNINITIALISED)
           /\ f_written = 0
           /\ ~f_nullwrite

\* C6: epd_off on an open file closes it and empties the handle; epd_off
\* on an empty handle (before the first epd_on, or twice in a row) returns
\* ERR_UNINITIALISED and changes neither the handle nor the file.
C6_EpdOffClosesOrRefuses ==
    [][ f_op' = "off"
          => IF stream = NULL
             THEN /\ f_ret' = Returned(ERR_UNINITIALISED)
                  /\ stream' = NULL
                  /\ pbm' = pbm
                  /\ f_crashed' = f_crashed
             ELSE /\ stream' = NULL
                  /\ f_ret' # Returned(ERR_UNINITIALISED) ]_vars

\* C6 witness: a second epd_off in a row on a file that had been opened.
C6_Witness ==
    /\ f_op = "off"
    /\ f_pre = NULL
    /\ pbm.hdr = HeaderChars
    /\ f_ret = Returned(ERR_UNINITIALISED)

C8_ResetLeavesDeviceActive ==
    (f_op = "reset" /\ f_ret = Returned(OK)) => stream # NULL

(***************************************************************************)
(* Claims about the hardware backend                                       *)
(***************************************************************************)

\* The bytes of a bitmap that fills the device: ceil(width / 8) * height.
FullLen == ((epd_width + 7) \div 8) * epd_height

\* C2: epd_display of a correctly sized bitmap while the SPI channel is not
\* open returns ERR_UNINITIALISED.
C2_HwDisplayWhileOffUninitialised ==
    (h_op = "display" /\ h_pre < 0 /\ h_in.len = FullLen)
        => h_ret = Returned(ERR_UNINITIALISED)

\* C3: epd_display with len different from pitch(width) * height returns
\* ERR_INPUT and makes no transport call at all (no GPIO write, no SPI
\* write, no busy poll); with len equal to it the length check passes.
C3_HwDisplayLengthCheck ==
    h_op = "display"
        => IF h_in.len # FullLen
           THEN /\ h_ret = Returned(ERR_INPUT)
                /\ h_log = << >>
                /\ spi_fid = h_pre
           ELSE /\ h_ret # Returned(ERR_INPUT)
                /\ h_log # << >>

\* C3 witness: a bitmap one byte short was refused by a device that is on.
C3_Witness ==
    /\ h_op = "display"
    /\ h_pre >= 0
    /\ h_in.len = FullLen - 1
    /\ h_ret = Returned(ERR_INPUT)
    /\ h_log = << >>

\* C5: when every write succeeds and the busy pin stays high past the
\* polling bound, epd_display returns ERR_BUSY.
C5_HwDisplayBusyKind ==
    (/\ h_op = "display"
     /\ h_pre >= 0
     /\ h_in.len = FullLen
     /\ h_env.fail = 0
     /\ h_env.busy > BUSY_POLLS)
        => h_ret = Returned(ERR_BUSY)

(***************************************************************************)
(* Claims about wait_while_busy()                                          *)
(***************************************************************************)

\* C4 as claimed: wait_while_busy samples the busy pin at most 100 times
\* and sleeps at most 100 times.
C4_BusyWaitAtMost100 ==
    /\ bw.samples <= 100
    /\ bw.sleeps <= 100

\* C4 amended: whatever the busy pin does, wait_while_busy samples it at
\* most 101 times and sleeps at most 101 times; by the 101st sample that
\* reads high it has returned, with ERR_BUSY.
C4_BusyWaitAtMost101 ==
    /\ bw.samples <= 101
    /\ bw.sleeps <= 101
    /\ bw.sleeps <= bw.samples
    /\ bw.samples = 101 => bw.done
    /\ (bw.done /\ bw.ret = ERR_BUSY) => bw.sleeps = 101
    /\ bw.done => bw.ret \in {OK, ERR_BUSY}

\* C4 witness: the pin stayed high and the wait gave up.
C4_Witness ==
    /\ bw.done
    /\ bw.ret = ERR_BUSY
    /\ bw.samples = 101
    /\ bw.sleeps = 101

(***************************************************************************)
(* Claims about bitmap.c                                                   *)
(***************************************************************************)

\* The height in pixels of a BITMAP
BmpHeight(b) == b.length \div b.pitch

\* Both bitmaps of the last bitmap_copy() were created and had buffers.
CopyOfUsable ==
    /\ b_op = "copy"
    /\ check_bitmap(b_pre) = 0
    /\ check_bitmap(rectangle) = 0
    /\ b_pre.buffer # NULL_BUFFER
    /\ rectangle.buffer # NULL_BUFFER

\* C9: bitmap_copy at origin (0,0) into a destination of exactly the width
\* and height of the source succeeds, and the destination buffer then
\* equals the source buffer byte for byte.
C9_CopyEqualSizeReproduces ==
    (/\ CopyOfUsable
     /\ b_args = [x |-> 0, y |-> 0]
     /\ b_pre.row_px = rectangle.row_px
     /\ BmpHeight(b_pre) = BmpHeight(rectangle))
        => /\ b_ret = Returned(0)
           /\ bmp.buffer = rectangle.buffer

\* C10: bitmap_copy returns 2 exactly when x_origin + source.width >
\* dest.width or y_origin + source.height > dest.height, succeeds
\* otherwise (equality included), and leaves the destination buffer
\* unchanged when it returns 2.
C10_CopyRangeCheck ==
    CopyOfUsable
        => /\ b_ret = Returned(2)
                <=> \/ b_args.x + rectangle.row_px > b_pre.row_px
                    \/ b_args.y + BmpHeight(rectangle) > BmpHeight(b_pre)
           /\ b_ret \in {Returned(0), Returned(2)}
           /\ b_ret = Returned(2) => bmp.buffer = b_pre.buffer

\* The pixel (x, y) of a buffer with rows of pitch bytes: 0 or 1
PixelAt(buffer, pitch, x, y) ==
    (buffer[y * pitch + (x \div 8) + 1] \div Pow2(7 - (x % 8))) % 2

\* C11: after a successful bitmap_copy every destination pixel outside
\* the rectangle [x_origin, x_origin + source.width) x [y_origin,
\* y_origin + source.height) has the value it had before the call.
C11_CopyLeavesOutsideAlone ==
    (CopyOfUsable /\ b_ret = Returned(0))
        => \A x \in 0 .. (bmp.row_px - 1), y \in 0 .. (BmpHeight(bmp) - 1) :
              (\/ x < b_args.x
               \/ x >= b_args.x + rectangle.row_px
               \/ y < b_args.y
               \/ y >= b_args.y + BmpHeight(rectangle))
                  => PixelAt(bmp.buffer, bmp.pitch, x, y)
                        = PixelAt(b_pre.buffer, b_pre.pitch, x, y)

\* The height in pixels of a BITMAP, 0 while it has no pitch
PxHeight(b) == IF b.pitch = 0 THEN 0 ELSE b.length \div b.pitch

\* The last call was a bitmap_modify_px that returned 0 on a bitmap whose
\* buffer was assigned.
PxDone ==
    /\ b_op = "modify_px"
    /\ b_ret = Returned(0)
    /\ b_pre.buffer # NULL_BUFFER

\* The index, from 1, of the byte that holds the pixel of the last call
PxByte == b_args.y * b_pre.pitch + (b_args.x \div 8) + 1

\* The mask of the pixel of the last call within its byte
PxMask == Pow2(7 - (b_args.x % 8))

\* The bits of a byte other than those of mask, a single bit
OtherBits(byte, mask) == byte - ((byte \div mask) % 2) * mask

\* C12: a successful bitmap_modify_px, in every mode and for either
\* polarity, changes at most the bit 1 << (7 - (x mod 8)) of byte
\* buffer[y * pitch + x / 8]; every other bit of the buffer keeps its
\* value.
C12_ModifyPxTouchesOneBit ==
    PxDone
        => /\ Len(bmp.buffer) = Len(b_pre.buffer)
           /\ \A i \in 1 .. Len(bmp.buffer) :
                 IF i = PxByte
                 THEN OtherBits(bmp.buffer[i], PxMask)
                         = OtherBits(b_pre.buffer[i], PxMask)
                 ELSE bmp.buffer[i] = b_pre.buffer[i]

\* The last two calls were successful bitmap_modify_px calls on the same
\* pixel with the same polarity.
PxPair ==
    /\ PxDone
    /\ b_prev # NoPrev
    /\ b_prev.ret = Returned(0)
    /\ b_prev.pre.buffer # NULL_BUFFER
    /\ b_prev.args.colour = b_args.colour

\* C13: when the pixel is clear (white), setting it (black) and then
\* clearing it at the same coordinate leaves the byte that contains the
\* pixel equal to its value before the two calls.
C13_SetThenClearRestoresByte ==
    (/\ PxPair
     /\ b_prev.args.mode = SET_PIXEL_BLACK
     /\ b_args.mode = SET_PIXEL_WHITE
     /\ PixelAt(b_prev.pre.buffer, b_prev.pre.pitch, b_args.x, b_args.y)
           = (IF b_args.colour = 0 THEN 1 ELSE 0))
        => bmp.buffer[PxByte] = b_prev.pre.buffer[PxByte]

\* C14: for either polarity, a toggle inverts the addressed bit, and two
\* toggles at the same coordinate leave the whole buffer as it was.
C14_ToggleInvertsAndTwiceRestores ==
    /\ (PxDone /\ b_args.mode = SET_PIXEL_TOGGLE)
          => PixelAt(bmp.buffer, bmp.pitch, b_args.x, b_args.y)
                = 1 - PixelAt(b_pre.buffer, b_pre.pitch, b_args.x, b_args.y)
    /\ (/\ PxPair
        /\ b_prev.args.mode = SET_PIXEL_TOGGLE
        /\ b_args.mode = SET_PIXEL_TOGGLE)
          => bmp.buffer = b_prev.pre.buffer

\* The coordinates of the last bitmap_modify_px are outside the bitmap.
PxOutside == b_args.x >= b_pre.row_px \/ b_args.y >= PxHeight(b_pre)

\* C15 as claimed: bitmap_modify_px returns 2 whenever x >= width or
\* y >= height, without reading or modifying a byte, and does not return 2
\* for x < width and y < height on an initialised bitmap.
C15_OutOfRangeWhenever ==
    b_op = "modify_px"
        => IF PxOutside
           THEN /\ b_ret = Returned(2)
                /\ b_acc = {}
                /\ bmp = b_pre
           ELSE check_bitmap(b_pre) = 0 => b_ret # Returned(2)

\* C15 amended: on an initialised bitmap bitmap_modify_px returns 2 exactly
\* when x >= width or y >= height; on an uninitialised one it returns 1
\* whatever the coordinates; when it returns 1 or 2 no byte of the buffer
\* was read or modified.
C15_OutOfRangeOnInitialised ==
    b_op = "modify_px"
        => /\ check_bitmap(b_pre) = 0
                => (b_ret = Returned(2) <=> PxOutside)
           /\ check_bitmap(b_pre) # 0 => b_ret = Returned(1)
           /\ b_ret \in {Returned(1), Returned(2)}
                => (b_acc = {} /\ ~b_ub /\ bmp = b_pre)

\* C15 witness: x == width on an initialised bitmap was refused.
C15_Witness ==
    /\ b_op = "modify_px"
    /\ check_bitmap(b_pre) = 0
    /\ b_pre.buffer # NULL_BUFFER
    /\ b_args.x = b_pre.row_px
    /\ b_args.y < PxHeight(b_pre)
    /\ b_ret = Returned(2)
    /\ bmp = b_pre

\* C16: bitmap_modify_px and bitmap_clear on a bitmap with length == 0,
\* pitch == 0 or a null buffer fail with an error and do not dereference
\* the buffer.
C16_UninitialisedFails ==
    (/\ b_op \in {"modify_px", "clear"}
     /\ \/ b_pre.length = 0
        \/ b_pre.pitch = 0
        \/ b_pre.buffer = NULL_BUFFER)
        => /\ b_ret \in {Returned(1), Returned(2)}
           /\ b_acc = {}
           /\ ~b_ub

\* The BITMAP the last bitmap_create was handed, as it is now
Created == IF b_args.name = "bmp" THEN bmp ELSE rectangle

\* C17: for width > 0 and height > 0 bitmap_create returns 0 with pitch ==
\* ceil(width / 8), length == pitch * height and row width == width; with
\* width == 0 or height == 0 it returns 1 and creates nothing.
C17_CreateDimensions ==
    b_op = "create"
        => IF b_args.width > 0 /\ b_args.height > 0
           THEN /\ b_ret = Returned(0)
                /\ Created.pitch = (b_args.width + 7) \div 8
                /\ Created.length
                      = ((b_args.width + 7) \div 8) * b_args.height
                /\ Created.row_px = b_args.width
           ELSE /\ b_ret = Returned(1)
                /\ Created = b_pre

\* C17 witness: a bitmap whose width is not a multiple of 8 was created.
C17_Witness ==
    /\ b_op = "create"
    /\ b_args.width % 8 # 0
    /\ b_args.height > 0
    /\ b_ret = Returned(0)
    /\ Created.pitch = (b_args.width \div 8) + 1

\* C18: after a successful bitmap_create the bitmap has a buffer of length
\* bytes, every one of them 0.
C18_CreateAllocatesZeroedBuffer ==
    (b_op = "create" /\ b_ret = Returned(0))
        => /\ Len(Created.buffer) = Created.length
           /\ \A i \in 1 .. Len(Created.buffer) : Created.buffer[i] = 0

(***************************************************************************)
(* Claims about cache.c                                                    *)
(***************************************************************************)

\* C19: cache_insert(K, G) succeeds on every cache, an empty bucket
\* included, and a cache_search(K) after it returns a glyph that was
\* inserted under K.
C19_InsertThenSearchFinds ==
    /\ c_op = "insert" => (~c_ub /\ c_ret = Returned(OK))
    /\ (c_op = "search" /\ \E g \in Glyphs : << c_args.cp, g >> \in c_inserted)
          => \E g \in Glyphs : /\ << c_args.cp, g >> \in c_inserted
                               /\ c_ret = Returned(g)

C21_HashSpreadsLowBits ==
    (c_op \in {"insert", "search"} /\ c_bucket # NoBucket)
        => /\ c_bucket = c_args.cp % TABLE_SIZE
           /\ \A other \in Codepoints :
                 (other % 256) # (c_args.cp % 256) => hash(other) # c_bucket

\* C22: cache_create returns NULL and creates no cache when the font size
\* is zero; for a non-zero font size it returns a cache whose every bucket
\* is empty.
C22_CreateRefusesZeroFontSize ==
    c_op = "create"
        => IF c_args.fontsize = 0
           THEN c_ret = Returned(NullPointer) /\ c_cache = NullPointer
           ELSE /\ c_ret # Returned(NullPointer)
                /\ c_cache # NullPointer
                /\ \A i \in 0 .. (TABLE_SIZE - 1) :
                      c_table[i] = LIST(NullPointer, NullPointer)

\* C35: cache_destroy on a cache terminates, and when it has returned
\* every list of the table has neither head nor tail.
C35_DestroyTerminatesAndEmpties ==
    (c_op = "destroy" /\ c_cache # NullPointer)
        => /\ ~c_crashed
           /\ \A i \in 0 .. (TABLE_SIZE - 1) :
                 c_table[i] = LIST(NullPointer, NullPointer)

\* C36: no codepoint is held by two nodes of the cache, and a glyph()
\* request for a codepoint that was inserted before is answered from the
\* cache without rendering or inserting again.
C36_GlyphCachedOnce ==
    /\ \A i, j \in 1 .. Len(c_nodes) :
          c_nodes[i].unicode = c_nodes[j].unicode => i = j
    /\ (c_op = "glyph" /\ c_args.known)
          => /\ ~c_args.rendered
             /\ \E g \in Glyphs : /\ << c_args.cp, g >> \in c_inserted
                                  /\ c_ret = Returned(g)

(***************************************************************************)
(* Claims about utf8.c, checked under SpecUtf8                             *)
(***************************************************************************)
\* The last call was utf8_ftocp() and no read error struck during it
FtocpDone == u_op = "ftocp" /\ ~u_pre.ioerr

\* The bytes the last call took from the stream
Consumed == Len(u_pre.stream) - Len(u_stream)

\* The next n bytes are a lead byte announcing n bytes and n - 1
\* continuation bytes
WellFormed(seq, n) ==
    /\ Len(seq) >= n
    /\ seq_nbytes(seq[1]) = n
    /\ \A i \in 2 .. n : seq[i] >= 128 /\ seq[i] < 192

\* The codepoint of a well-formed sequence of n bytes: the payload of the
\* lead byte followed by the low 6 bits of each continuation byte
RECURSIVE Payload(_, _, _)
Payload(seq, i, n) ==
    IF i = 1 THEN seq[1] % Pow2(IF n = 1 THEN 7 ELSE 7 - n)
    ELSE Payload(seq, i - 1, n) * 64 + (seq[i] % 64)

\* C23: a byte below 0x80 at the head of the stream makes utf8_ftocp()
\* return OK, store that byte as the codepoint and consume one byte.
C23_AsciiByteDecodesToItself ==
    (FtocpDone /\ u_pre.stream # << >> /\ u_pre.stream[1] < 128)
        => /\ u_ret = Returned(OK)
           /\ u_out = u_pre.stream[1]
           /\ Consumed = 1

\* C24: a well-formed sequence of 2, 3 or 4 bytes, decoded into a zeroed
\* codepoint, makes utf8_ftocp() return OK and store the lead byte's
\* payload followed by the low 6 bits of each continuation byte.
C24_MultiByteDecodes ==
    \A n \in 2 .. 4 :
        (FtocpDone /\ u_pre.out = 0 /\ WellFormed(u_pre.stream, n))
            => /\ u_ret = Returned(OK)
               /\ u_out = Payload(u_pre.stream, n, n)

\* C25: a byte that is no lead byte at the head of the stream makes
\* utf8_ftocp() store U+FFFD and return WARN_REPLACEMENT_CHAR.
C25_InvalidLeadGivesReplacement ==
    (FtocpDone /\ u_pre.stream # << >>
               /\ seq_nbytes(u_pre.stream[1]) = 0)
        => /\ u_ret = Returned(WARN_REPLACEMENT_CHAR)
           /\ u_out = CHAR_INVALID

\* C26: utf8_ftocp() on a stream with no byte left returns WARN_EOF.
C26_EmptyStreamGivesEof ==
    (FtocpDone /\ u_pre.stream = << >>) => u_ret = Returned(WARN_EOF)

\* The stream ends after a lead byte of a multi-byte sequence and before
\* the last of its continuation bytes
Truncated(seq) ==
    /\ seq # << >>
    /\ seq_nbytes(seq[1]) > 1
    /\ Len(seq) < seq_nbytes(seq[1])

\* C27: when the stream ends inside a multi-byte sequence utf8_ftocp()
\* returns an error, and not what it returns when the stream ends at a
\* sequence boundary.
C27_TruncatedDiffersFromEof ==
    (FtocpDone /\ Truncated(u_pre.stream))
        => /\ u_ret # NoReturn
           /\ u_ret[1] > 0
           /\ u_ret[1] # utf8_ftocp(<< >>, u_pre.out, FALSE).ret

(***************************************************************************)
(* What epd_display() of the hardware backend puts on the wire, checked    *)
(* under SpecHw                                                            *)
(***************************************************************************)
\* The last call was epd_display() on an opened transport, with the length
\* of the display and every write() complete
DisplayDone ==
    /\ h_op = "display"
    /\ h_pre >= 0
    /\ h_in.len = calculate_pitch(epd_width) * epd_height
    /\ h_env.fail = 0

\* The write() calls of the last call, in order: a command when the
\* data/command pin was low, data when it was high
Wire ==
    LET w == SelectSeq(h_log, LAMBDA e : e.ev = "spi")
    IN  [i \in 1 .. Len(w) |->
           [cmd |-> w[i].dc = GPIO_LEVEL_LOW, bytes |-> w[i].data]]

\* What row y of the bitmap has to put on the wire: the cursor at (0, y),
\* the write-RAM command and the complement of each byte of the row
RowOnWire(bitmap, y) ==
    LET pitch == calculate_pitch(epd_width)
    IN  << Cmd(SET_RAM_X_ADDRESS_COUNTER), Data(<< 0 >>),
           Cmd(SET_RAM_Y_ADDRESS_COUNTER), Data(<< y % 256, y \div 256 >>),
           Cmd(WRITE_RAM) >>
        \o [k \in 1 .. pitch |->
              Data(<< BitXor(bitmap[y * pitch + k], 255) >>)]

\* Rows 0 .. y - 1 in increasing order
RECURSIVE RowsOnWire(_, _)
RowsOnWire(bitmap, y) ==
    IF y = 0 THEN << >>
    ELSE RowsOnWire(bitmap, y - 1) \o RowOnWire(bitmap, y - 1)

\* The position in the log of the last write() call
LastWrite ==
    CHOOSE i \in 1 .. Len(h_log) :
        /\ h_log[i].ev = "spi"
        /\ \A j \in (i + 1) .. Len(h_log) : h_log[j].ev # "spi"

\* C30: epd_display() with a valid length and no transport failure writes,
\* for each row in increasing order, the RAM cursor (0, y), the write-RAM
\* command and the complement of each of the row's pitch bytes; after the
\* last row display-update-control, master-activation and terminate-frame;
\* and only then polls the busy pin.
C30_DisplayWireOrder ==
    DisplayDone =>
        /\ Wire = RowsOnWire(h_in.bitmap, epd_height)
                    \o << Cmd(DISPLAY_UPDATE_CONTROL_2), Data(<< 196 >>),
                          Cmd(MASTER_ACTIVATION),
                          Cmd(TERMINATE_FRAME_READ_WRITE) >>
        /\ \E i \in 1 .. Len(h_log) : h_log[i].ev = "read"
        /\ \A i \in 1 .. Len(h_log) :
              h_log[i].ev = "read" => i > LastWrite

\* A display of a bitmap whose rows differ and hold bytes other than 0 and
\* 255, with the busy pin high at the first poll
C30_Witness ==
    /\ DisplayDone
    /\ h_ret = Returned(OK)
    /\ h_env.busy > 0
    /\ \E k \in 1 .. calculate_pitch(epd_width) :
          /\ h_in.bitmap[k] # h_in.bitmap[calculate_pitch(epd_width) + k]
          /\ h_in.bitmap[k] \notin {0, 255}

(***************************************************************************)
(* Framing, start-up and failures of the hardware backend, checked under   *)
(* SpecHw                                                                  *)
(***************************************************************************)
\* The write() calls of the last call as they were logged
Writes == SelectSeq(h_log, LAMBDA e : e.ev = "spi")

\* a is the beginning of b
IsPrefix(a, b) == Len(a) <= Len(b) /\ a = SubSeq(b, 1, Len(a))

\* n times a command followed by its parameter block
RECURSIVE CommandsWithData(_)
CommandsWithData(n) ==
    IF n = 0 THEN << >> ELSE << TRUE, FALSE >> \o CommandsWithData(n - 1)

\* One row of the bitmap: two cursor commands with their parameters, the
\* write-RAM command and one data write for each byte of the row
RowKinds ==
    << TRUE, FALSE, TRUE, FALSE, TRUE >>
    \o [k \in 1 .. calculate_pitch(epd_width) |-> FALSE]

RECURSIVE RowsKinds(_)
RowsKinds(n) == IF n = 0 THEN << >> ELSE RowKinds \o RowsKinds(n - 1)

\* Which writes of the last call have to be commands (TRUE) and which data:
\* epd_on sends seven start-up commands, the LUT and the two RAM window
\* commands, each with parameters; epd_display the rows, display-update
\* control with its parameter, master-activation and terminate-frame;
\* epd_off deep-sleep with its parameter
ExpectedKinds ==
    CASE h_op = "on" -> CommandsWithData(7 + 1 + 2)
      [] h_op = "display" ->
            RowsKinds(epd_height) \o << TRUE, FALSE, TRUE, TRUE >>
      [] h_op = "off" -> CommandsWithData(1)
      [] OTHER -> << >>

\* C31: at every SPI write the chip-select pin is low, and the
\* command/data pin is low when the bytes are a command and high when they
\* are data.
C31_FramingPins ==
    /\ \A i \in 1 .. Len(Writes) : Writes[i].cs = GPIO_LEVEL_LOW
    /\ IsPrefix([i \in 1 .. Len(Writes) |->
                   Writes[i].dc = GPIO_LEVEL_LOW],
                ExpectedKinds)
    /\ \A i \in 1 .. Len(Writes) :
          Writes[i].dc \in {GPIO_LEVEL_LOW, GPIO_LEVEL_HIGH}

\* A display that made every one of its writes
C31_Witness ==
    /\ h_op = "display"
    /\ h_ret = Returned(OK)
    /\ Len(Writes) = Len(ExpectedKinds)

\* The mode the driver has to give a pin
PinModes ==
    [p \in Pins |-> IF p = PIN_BUSY THEN "INPUT" ELSE "OUTPUT"]

\* The reset pulse: high, low, high, the delay after each level
ResetPulse ==
    << [ev |-> "gpio", pin |-> PIN_RST, level |-> GPIO_LEVEL_HIGH],
       [ev |-> "delay", ms |-> RESET_DELAY],
       [ev |-> "gpio", pin |-> PIN_RST, level |-> GPIO_LEVEL_LOW],
       [ev |-> "delay", ms |-> RESET_DELAY],
       [ev |-> "gpio", pin |-> PIN_RST, level |-> GPIO_LEVEL_HIGH],
       [ev |-> "delay", ms |-> RESET_DELAY] >>

\* C32: when epd_on opens the SPI channel, RST, DC and CS are already in
\* output mode and BUSY in input mode; and the reset pin is pulsed high,
\* low, high with the delay after each level before any command is
\* written.
C32_PinModesBeforeOpen ==
    h_op = "on" =>
        \A i \in 1 .. Len(h_log) :
            h_log[i].ev = "open" =>
                /\ \A p \in Pins :
                      \E j \in 1 .. (i - 1) :
                          h_log[j] = [ev |-> "mode", pin |-> p,
                                      mode |-> PinModes[p]]
                /\ Writes # << >>
                      => SubSeq(h_log, i + 1, i + 6) = ResetPulse

\* C33: epd_on returns success only if every write of the start-up
\* sequence, the RAM window included, was made and was complete.
C33_OnReportsEveryFailure ==
    (h_op = "on" /\ h_ret # NoReturn /\ h_ret[1] <= 0)
        => /\ spi_fid >= 0
           /\ Len(Writes) = Len(ExpectedKinds)
           /\ \A i \in 1 .. Len(Writes) : ~Writes[i].short

\* C34: once a write fails during epd_on, epd_display or epd_off, the
\* call makes no further write and returns an error.
C34_FailureEndsCall ==
    \A i \in 1 .. Len(Writes) :
        Writes[i].short => /\ i = Len(Writes)
                           /\ h_ret # NoReturn
                           /\ h_ret[1] > 0

\* C38: whenever write_command or write_data has returned, with or without
\* an error, the chip-select pin is high.
C38_ChipSelectReleased ==
    (\E i \in 1 .. Len(h_log) :
        h_log[i].ev = "gpio" /\ h_log[i].pin = PIN_CS)
        => pin_level[PIN_CS] = GPIO_LEVEL_HIGH

(***************************************************************************)
(* The pixels bitmap_copy() writes, checked under SpecBmp                  *)
(***************************************************************************)
\* The last call was a bitmap_copy() between two bitmaps with buffers, and
\* it returned OK
CopyDone == CopyOfUsable /\ b_ret = Returned(OK)

\* C29: after a successful bitmap_copy(dest, source, x0, y0) the
\* destination pixel (x0 + i, y0 + j) equals the source pixel (i, j) for
\* every i below the source's width and j below its height.
C29_CopyPlacesSourcePixels ==
    CopyDone =>
        \A i \in 0 .. (rectangle.row_px - 1),
           j \in 0 .. (BmpHeight(rectangle) - 1) :
            PixelAt(bmp.buffer, bmp.pitch, b_args.x + i, b_args.y + j)
                = PixelAt(rectangle.buffer, rectangle.pitch, i, j)

\* A copy to an origin that is no multiple of 8 and not in the first row,
\* from a source with another pitch, that changed a pixel
C29_Witness ==
    /\ CopyDone
    /\ b_args.x % 8 = 3
    /\ b_args.y = 1
    /\ rectangle.pitch # bmp.pitch
    /\ \E i \in 0 .. (rectangle.row_px - 1),
          j \in 0 .. (BmpHeight(rectangle) - 1) :
           PixelAt(b_pre.buffer, b_pre.pitch, b_args.x + i, b_args.y + j)
               # PixelAt(bmp.buffer, bmp.pitch, b_args.x + i, b_args.y + j)

\* The last bitmap_copy() was between two bitmaps with buffers and passed
\* the fit check
CopyFits ==
    /\ CopyOfUsable
    /\ ~copy_rejects(b_args.x, rectangle.row_px, b_pre.row_px,
                     b_args.y, BmpHeight(rectangle), BmpHeight(b_pre))

\* C37: a bitmap_copy that passes the fit check reads and writes the
\* destination buffer only at indices in [0, dest.length) and reads the
\* source buffer only in [0, source.length), the byte after each source
\* byte's destination included.
C37_CopyStaysInBuffers ==
    CopyFits => ~b_ub /\ b_ret = Returned(OK)

\* A copy that ends in the last byte of the row before the last one
C37_Witness ==
    /\ CopyFits
    /\ b_args.x = 7
    /\ b_args.y + BmpHeight(rectangle) = BmpHeight(b_pre) - 1
    /\ rectangle.pitch + 1 = b_pre.pitch

\* C39: what utf8_ftocp() returns and stores depends on the bytes it
\* consumed only: a call that decodes returns and stores what the same
\* call on the same stream does when *out held 0 before.
C39_OutIndependentOfPriorValue ==
    (FtocpDone /\ u_ret # NoReturn /\ u_ret[1] <= 0)
        => LET z == utf8_ftocp(u_pre.stream, 0, FALSE)
           IN  u_ret = Returned(z.ret) /\ u_out = z.out

(***************************************************************************)
(* Claims about main(), checked under SpecMain                             *)
(***************************************************************************)
\* main() made the call
Called(name) == \E i \in 1 .. Len(m_calls) : m_calls[i] = name

\* The process is over after die() was called with the device handle
\* created
Aborted == m_died /\ m_pc \in {"exited", "crashed"} /\ Called("epd_create")

\* C28: when main() aborts after the device handle was created, epd_off()
\* is attempted and the glyph cache and the page bitmap are torn down
\* before the process exits.
C28_AbortTearsDown ==
    Aborted => /\ Called("epd_off")
               /\ Called("cache_destroy")
               /\ Called("bitmap_create") => Called("bitmap_destroy")

\* C40: when main() aborts through die() the exit status is not 0, and
\* exit status 0 comes only after epd_display() and cleanup() completed.
C40_AbortExitsNonZero ==
    m_pc = "exited"
        => /\ m_died => m_exit # Returned(0)
           /\ m_exit = Returned(0)
                 => /\ ~m_died
                    /\ Called("epd_display")
                    /\ Called("epd_destroy")

====
